---------------------------- MODULE Spec2Model ----------------------------
(***************************************************************************)
(* A model of the eTenders per-record enrichment pipeline                  *)
(* (src/python): the sink writers (json_output.py, csv_output.py,          *)
(* postgres_output.py), the record processor and the run loop (main.py),   *)
(* the PDF enrichment (pdf_parser.py) and the CPV code extraction          *)
(* (cpv_list_checker.py).                                                  *)
(*                                                                         *)
(* A Python dict is a sequence of <<key, value>> pairs with distinct keys  *)
(* (dicts keep insertion order).  A value is a record [t, v]: t is its     *)
(* Python type, v its payload.                                             *)
(***************************************************************************)
EXTENDS Integers, Sequences, FiniteSets, TLC

VARIABLES
    wkind,            \* WriterSpec: which writer class the instance `out` is
    out,              \* WriterSpec: the writer instance (its fields and its file)
    ret,              \* WriterSpec: the last call on `out` and how it ended
    calls,            \* WriterSpec: number of calls made on `out`
    cfg,              \* run_pipeline: output_format, process_pdfs, check_cpvs
    pc,               \* run_pipeline: position in the function body
    tenders_output,   \* run_pipeline: the three sink writers
    pdfs_output,
    cpvs_output,
    counters,         \* run_pipeline: total_records, *_written, failed_records
    last,             \* run_pipeline: what the last loop iteration did
    fn,               \* FnSpec: the function that was called
    given,            \* FnSpec: what it was called with
    returned          \* FnSpec: what it returned

vars == <<wkind, out, ret, calls, cfg, pc, tenders_output, pdfs_output,
          cpvs_output, counters, last, fn, given, returned>>

writerVars == <<wkind, out, ret, calls>>
runVars == <<cfg, pc, tenders_output, pdfs_output, cpvs_output, counters, last>>
fnVars == <<fn, given, returned>>

----------------------------------------------------------------------------
(* Bounds of the model *)

\* most records handed to one file writer instance in WriterSpec (a flush
\* counts as one)
MaxCalls == 4

\* most records handed to one store writer instance in WriterSpec (a close
\* counts as one)
MaxStatements == 3

\* most records the scraper yields in one run of the pipeline
MaxRecords == 2


----------------------------------------------------------------------------
(* Python values and dicts *)

\* a Python str: the sequence of its words, '' the empty sequence
StrV(words) == [t |-> "str", v |-> words]
Text(words) == StrV(words)
IntV(n) == [t |-> "int", v |-> n]
BoolV(b) == [t |-> "bool", v |-> b]
NoneV == [t |-> "none", v |-> ""]
\* the text str(x) of a list x
StrOf(x) == [t |-> "strof", v |-> x]
DictV(d) == [t |-> "dict", v |-> d]
ListV(l) == [t |-> "list", v |-> l]
\* a datetime or other object json can only write through default=str
ObjV(x) == [t |-> "obj", v |-> x]
FloatV(n) == [t |-> "float", v |-> n]
\* a list that contains itself: json.dumps raises ValueError, str() works
CycList == [t |-> "cyclist", v |-> "[[...]]"]
\* a string holding a lone surrogate (json.loads of "\ud800"): it cannot be
\* encoded to the utf-8 output file, json.dumps escapes it
SurrV(x) == [t |-> "surr", v |-> x]

\* the one element of a singleton set: { F(x) : x \in {e} } evaluates e
\* once, however often F uses x
The(S) == CHOOSE x \in S : TRUE

Keys(d) == [i \in 1..Len(d) |-> d[i][1]]

HasKey(d, k) == \E i \in 1..Len(d) : d[i][1] = k

\* d.get(k, dflt)
Get(d, k, dflt) ==
    The({ IF HasKey(x, k)
          THEN x[CHOOSE i \in 1..Len(x) : x[i][1] = k][2]
          ELSE dflt : x \in {d} })

\* d[k] = v : an existing key keeps its place
Put(d, k, v) ==
    The({ IF HasKey(x, k)
          THEN [i \in 1..Len(x) |-> IF x[i][1] = k THEN <<k, v>> ELSE x[i]]
          ELSE Append(x, <<k, v>>) : x \in {d} })

\* dict(items): a later item with the same key overwrites the earlier value
RECURSIVE DictOf(_)
DictOf(items) ==
    IF items = <<>> THEN <<>>
    ELSE LET n == Len(items)
         IN Put(DictOf(SubSeq(items, 1, n - 1)), items[n][1], items[n][2])

\* elements of a sequence
Range(s) == {s[i] : i \in 1..Len(s)}

----------------------------------------------------------------------------
(* json_output.py : JSONOutput *)

\* what one call returned: "true", "false", "none" (no value), or "raise"
\* when an exception left the call
Result(w, res) == [w |-> w, res |-> res]

\* the pieces written to the output file
TokOpen == [k |-> "open", body |-> <<>>]       \* '[\n'
TokSep == [k |-> "sep", body |-> <<>>]         \* ',\n'
TokClose == [k |-> "close", body |-> <<>>]     \* '\n]\n'
TokRec(body) == [k |-> "rec", body |-> body]   \* '  ' + json_str

\* json.dumps(x, default=str) can encode x: a circular reference raises
\* ValueError
RECURSIVE Serializable(_)
Serializable(x) ==
    CASE x.t = "cyclist" -> FALSE
      [] x.t = "list" -> \A i \in 1..Len(x.v) : Serializable(x.v[i])
      [] x.t = "dict" -> \A i \in 1..Len(x.v) : Serializable(x.v[i][2])
      [] OTHER -> TRUE

\* the JSON text of x: an object json cannot encode is written as the
\* string str(x) (default=str), a lone surrogate is escaped to ASCII
RECURSIVE JsonText(_)
JsonText(x) ==
    CASE x.t = "obj" -> Text(<<x.v>>)
      [] x.t = "surr" -> Text(<<"\\u" \o x.v>>)
      [] x.t = "list" -> ListV([i \in 1..Len(x.v) |-> JsonText(x.v[i])])
      [] x.t = "dict" ->
            DictV([i \in 1..Len(x.v) |-> <<x.v[i][1], JsonText(x.v[i][2])>>])
      [] OTHER -> x

\* json.dumps(record, default=str)
dumps(record) ==
    [ok |-> Serializable(DictV(record)),
     text |-> IF Serializable(DictV(record)) THEN JsonText(DictV(record)).v
              ELSE <<>>]

JSONOutput(streaming) ==
    [streaming |-> streaming,
     records |-> <<>>,
     error_count |-> 0,
     records_written |-> 0,
     file_handle |-> IF streaming THEN "open" ELSE "none",
     file |-> IF streaming THEN <<TokOpen>> ELSE <<>>,
     logged |-> 0]

\* _log_error: appends an entry to the log file; open() of the log file
\* raises OSError when logOK is false
log_error(w, logOK) ==
    IF logOK THEN Result([w EXCEPT !.logged = @ + 1], "false")
    ELSE Result(w, "raise")

\* a write_record that takes a failed write for a written record when it
\* decides whether a separator is due
JSONOutput_write_record_counting_errors(w, record, logOK) ==
    LET d == dumps(record)
    IN IF ~d.ok
       THEN log_error([w EXCEPT !.error_count = @ + 1], logOK)
       ELSE IF w.streaming
            THEN IF w.file_handle = "none"
                 THEN Result(w, "raise")
                 ELSE Result(
                        [w EXCEPT
                           !.file = @ \o (IF w.records_written + w.error_count > 0
                                          THEN <<TokSep>> ELSE <<>>)
                                      \o <<TokRec(d.text)>>,
                           !.records_written = @ + 1],
                        "true")
            ELSE Result([w EXCEPT !.records = Append(@, record),
                                  !.records_written = @ + 1], "true")

JSONOutput_write_record(w, record, logOK) ==
    LET d == dumps(record)
    IN IF ~d.ok
       THEN \* except (TypeError, ValueError)
            log_error([w EXCEPT !.error_count = @ + 1], logOK)
       ELSE IF w.streaming
            THEN IF w.file_handle = "none"
                 THEN \* None.write: AttributeError, not caught
                      Result(w, "raise")
                 ELSE Result(
                        [w EXCEPT
                           !.file = @ \o (IF w.records_written > 0
                                          THEN <<TokSep>> ELSE <<>>)
                                      \o <<TokRec(d.text)>>,
                           !.records_written = @ + 1],
                        "true")
            ELSE Result([w EXCEPT !.records = Append(@, record),
                                  !.records_written = @ + 1], "true")

\* json.dump(records) of the buffered mode: the whole array at once
RECURSIVE JoinRecs(_)
JoinRecs(texts) ==
    IF texts = <<>> THEN <<>>
    ELSE IF Len(texts) = 1 THEN <<TokRec(texts[1])>>
    ELSE JoinRecs(SubSeq(texts, 1, Len(texts) - 1))
         \o <<TokSep, TokRec(texts[Len(texts)])>>

JSONOutput_flush(w, openOK, logOK) ==
    IF w.streaming
    THEN IF w.file_handle = "open"
         THEN Result([w EXCEPT !.file = Append(@, TokClose),
                               !.file_handle = "none"], "none")
         ELSE Result(w, "none")
    ELSE IF openOK
         THEN Result(
                [w EXCEPT !.file =
                    <<TokOpen>>
                    \o JoinRecs([i \in 1..Len(w.records) |->
                                   dumps(w.records[i]).text])
                    \o <<TokClose>>],
                "none")
         ELSE \* except Exception: print, then _log_error
              LET r == log_error(w, logOK)
              IN Result(r.w, IF r.res = "raise" THEN "raise" ELSE "none")

\* get_stats()
JSONOutput_get_stats(w) ==
    <<<<"records_written",
        IntV(IF w.streaming THEN w.records_written ELSE Len(w.records))>>,
      <<"errors", IntV(w.error_count)>>>>

----------------------------------------------------------------------------
(* csv_output.py : CSVOutput *)

\* new_key = f"{parent_key}{sep}{k}" if parent_key else k, with sep = '_'
new_key(parent_key, k) ==
    IF parent_key # "" THEN parent_key \o "_" \o k ELSE k

\* _flatten_record: a nested dict contributes its own flattened items under
\* the joined key, a list is replaced by its text, the items are collected
\* into a dict
RECURSIVE flatten_items(_, _)
flatten_items(record, parent_key) ==
    IF record = <<>> THEN <<>>
    ELSE LET n == Len(record)
             k == record[n][1]
             x == record[n][2]
             nk == new_key(parent_key, k)
             before == flatten_items(SubSeq(record, 1, n - 1), parent_key)
         IN CASE x.t = "dict" -> before \o DictOf(flatten_items(x.v, nk))
              [] x.t = "list" -> Append(before, <<nk, StrOf(x.v)>>)
              [] x.t = "cyclist" -> Append(before, <<nk, Text(<<x.v>>)>>)
              [] OTHER -> Append(before, <<nk, x>>)

flatten_record(record) == DictOf(flatten_items(record, ""))

\* one cell of a row: the column it was taken for and the value written
Cell(col, val) == [col |-> col, val |-> val]

\* the row csv.DictWriter writes for rowdict: one cell per entry of the
\* writer's fieldnames, in that order
dict_to_list(fieldnames, rowdict) ==
    [i \in 1..Len(fieldnames) |->
        Cell(fieldnames[i], Get(rowdict, fieldnames[i], Text(<<>>)))]

\* the header row: the fieldnames themselves
header_row(fieldnames) ==
    [i \in 1..Len(fieldnames) |-> Cell(fieldnames[i], Text(<<fieldnames[i]>>))]

\* the utf-8 file accepts the row: a lone surrogate raises
\* UnicodeEncodeError and nothing of the row is written
Encodable(row) == \A i \in 1..Len(row) : row[i].val.t # "surr"

CSVOutput(streaming) ==
    [streaming |-> streaming,
     records |-> <<>>,
     error_count |-> 0,
     records_written |-> 0,
     has_fieldnames |-> FALSE,     \* fieldnames is not None
     fieldnames |-> <<>>,          \* the list csv_writer shares
     file_handle |-> IF streaming THEN "open" ELSE "none",
     csv_writer |-> FALSE,         \* csv_writer is not None
     file |-> <<>>,                \* the rows written
     logged |-> 0]

\* lines 48-62: set the fieldnames from the first record and write the
\* header, or extend the list by the fields not seen before.  The list is
\* the one handed to csv.DictWriter, so the writer sees the extension.
\* raised: DictWriter(None, ...) raised TypeError
update_fieldnames(w, flat) ==
    IF ~w.has_fieldnames
    THEN LET w1 == [w EXCEPT !.has_fieldnames = TRUE, !.fieldnames = Keys(flat)]
         IN IF ~w.streaming THEN [w |-> w1, raised |-> FALSE]
            ELSE IF w.file_handle = "none"
                 THEN [w |-> w1, raised |-> TRUE]
                 ELSE [w |-> [w1 EXCEPT !.csv_writer = TRUE,
                                        !.file = Append(@, header_row(Keys(flat)))],
                       raised |-> FALSE]
    ELSE LET new_fields ==
                 SelectSeq(Keys(flat), LAMBDA k : k \notin Range(w.fieldnames))
         IN [w |-> [w EXCEPT !.fieldnames = @ \o new_fields], raised |-> FALSE]

\* a write_record that closes the file when a write fails
CSVOutput_write_record_closing(w, record, logOK) ==
    LET flat == flatten_record(record)
        u == update_fieldnames(w, flat)
        row == dict_to_list(u.w.fieldnames,
                            [i \in 1..Len(u.w.fieldnames) |->
                               <<u.w.fieldnames[i],
                                 Get(flat, u.w.fieldnames[i], Text(<<>>))>>])
        failed == log_error([u.w EXCEPT !.error_count = @ + 1,
                                        !.file_handle = "none"], logOK)
    IN IF u.raised THEN failed
       ELSE IF w.streaming
            THEN IF \/ ~u.w.csv_writer
                    \/ u.w.file_handle = "none"
                    \/ ~Encodable(row)
                 THEN failed
                 ELSE Result([u.w EXCEPT !.file = Append(@, row),
                                         !.records_written = @ + 1], "true")
            ELSE Result([u.w EXCEPT !.records = Append(@, flat),
                                    !.records_written = @ + 1], "true")

CSVOutput_write_record(w, record, logOK) ==
    LET flat == flatten_record(record)
        u == update_fieldnames(w, flat)
        row == dict_to_list(u.w.fieldnames,
                            [i \in 1..Len(u.w.fieldnames) |->
                               <<u.w.fieldnames[i],
                                 Get(flat, u.w.fieldnames[i], Text(<<>>))>>])
        \* except Exception
        failed == log_error([u.w EXCEPT !.error_count = @ + 1], logOK)
    IN IF u.raised THEN failed
       ELSE IF w.streaming
            THEN IF \/ ~u.w.csv_writer             \* None.writerow
                    \/ u.w.file_handle = "none"    \* write to a closed file
                    \/ ~Encodable(row)
                 THEN failed
                 ELSE Result([u.w EXCEPT !.file = Append(@, row),
                                         !.records_written = @ + 1], "true")
            ELSE Result([u.w EXCEPT !.records = Append(@, flat),
                                    !.records_written = @ + 1], "true")

\* the rows the buffered flush writes before a row fails to encode
RECURSIVE rows_written(_, _)
rows_written(fieldnames, records) ==
    IF records = <<>> THEN <<>>
    ELSE LET row == dict_to_list(fieldnames, records[1])
         IN IF Encodable(row)
            THEN <<row>> \o rows_written(fieldnames, Tail(records))
            ELSE <<>>

CSVOutput_flush(w, openOK, logOK) ==
    IF w.streaming
    THEN IF w.file_handle = "open"
         THEN Result([w EXCEPT !.file_handle = "none"], "none")
         ELSE Result(w, "none")
    ELSE IF w.records = <<>> THEN Result(w, "none")
         ELSE LET rows == rows_written(w.fieldnames, w.records)
                  w1 == IF openOK
                        THEN [w EXCEPT !.file = <<header_row(w.fieldnames)>> \o rows]
                        ELSE w
              IN IF openOK /\ Len(rows) = Len(w.records)
                 THEN Result(w1, "none")
                 ELSE \* except Exception: print, then _log_error
                      LET r == log_error(w1, logOK)
                      IN Result(r.w, IF r.res = "raise" THEN "raise" ELSE "none")

\* get_stats()
CSVOutput_get_stats(w) ==
    <<<<"records_written",
        IntV(IF w.streaming THEN w.records_written ELSE Len(w.records))>>,
      <<"errors", IntV(w.error_count)>>,
      <<"fields", IntV(IF w.has_fieldnames /\ w.fieldnames # <<>>
                       THEN Len(w.fieldnames) ELSE 0)>>>>

----------------------------------------------------------------------------
(* postgres_output.py : PostgresOutput *)

\* the named parameters of the INSERT of write_tender (lines 68-73)
CoreParams ==
    <<"resource_id", "row_number", "title", "detail_url",
      "contracting_authority", "info", "date_published",
      "submission_deadline", "procedure", "status", "notice_pdf_url",
      "award_date", "estimated_value", "cycle", "date_published_parsed",
      "submission_deadline_parsed", "award_date_parsed",
      "estimated_value_numeric", "cycle_numeric", "has_pdf_url",
      "has_estimated_value", "is_open">>

\* the named parameters of the INSERT of write_bid_analysis (lines 211-212)
BidParams ==
    <<"resource_id", "should_bid", "confidence", "reasoning",
      "relevant_factors", "estimated_fit", "analyzed_at">>

EmptyTables == [core |-> <<>>, pdf |-> <<>>, cpv |-> <<>>, bid |-> <<>>]

\* __init__ after connect() succeeded: conn and cursor are open.  A failed
\* connect() re-raises (line 42) and no instance exists.
PostgresOutput ==
    [conn |-> "open",
     txn |-> "idle",             \* idle, open, or aborted by a failed statement
     pending |-> EmptyTables,    \* the tables as the open transaction sees them
     committed |-> EmptyTables]

\* the row an INSERT ... ON CONFLICT (resource_id) DO UPDATE leaves: the
\* values of the named parameters
row_of(params, names) ==
    [i \in 1..Len(names) |-> <<names[i], Get(params, names[i], NoneV)>>]

\* an INSERT that adds a row whether or not the identifier has one
upsert_appending(rows, table, params, names) ==
    Append(rows, <<Get(params, "resource_id", NoneV),
                   IF table = "cpv" THEN row_of(params, names)
                   ELSE Append(row_of(params, names),
                               <<"updated_at", Text(<<"inserted">>)>>)>>)

\* INSERT ... ON CONFLICT (resource_id) DO UPDATE SET ... on the rows of a
\* table: the row of the identifier is added or replaced.  In etenders_core,
\* etenders_pdf and bid_analysis the UPDATE also sets updated_at =
\* CURRENT_TIMESTAMP (lines 97, 138, 221): updated_at is "inserted" for
\* the value a row got when it was inserted and "updated" for the time of a
\* later statement; the UPDATE of cpv_checker (lines 171-175) sets no such
\* column.
upsert(rows, table, params, names) ==
    Put(rows, Get(params, "resource_id", NoneV),
        IF table = "cpv" THEN row_of(params, names)
        ELSE Append(row_of(params, names),
                    <<"updated_at",
                      Text(<<IF HasKey(rows, Get(params, "resource_id", NoneV))
                             THEN "updated" ELSE "inserted">>)>>))

\* cursor.execute(query, params).  It raises when the connection is closed,
\* when params lacks a named parameter (KeyError), when the transaction is
\* aborted, and when the store rejects the statement (stmtOK false), which
\* aborts the transaction.
execute(pg, table, params, names, stmtOK) ==
    IF pg.conn # "open" THEN [pg |-> pg, raised |-> TRUE]
    ELSE IF \E i \in 1..Len(names) : ~HasKey(params, names[i])
         THEN [pg |-> pg, raised |-> TRUE]
    ELSE IF pg.txn = "aborted" THEN [pg |-> pg, raised |-> TRUE]
    ELSE IF ~stmtOK THEN [pg |-> [pg EXCEPT !.txn = "aborted"], raised |-> TRUE]
    ELSE [pg |-> [pg EXCEPT
                    !.txn = "open",
                    !.pending[table] = upsert(@, table, params, names)],
          raised |-> FALSE]

\* conn.commit()
commit(pg) == [pg EXCEPT !.committed = pg.pending, !.txn = "idle"]

\* conn.rollback(): raises InterfaceError on a closed connection
rollback(pg) ==
    IF pg.conn # "open" THEN [pg |-> pg, raised |-> TRUE]
    ELSE [pg |-> [pg EXCEPT !.pending = pg.committed, !.txn = "idle"],
          raised |-> FALSE]

\* a write that returns False without rolling the failed statement back
write_row_without_rollback(pg, table, params, names, stmtOK) ==
    The({ IF ~e.raised THEN Result(commit(e.pg), "true")
          ELSE Result(e.pg, "false")
          : e \in {execute(pg, table, params, names, stmtOK)} })

\* the body shared by write_tender, write_pdf, write_cpv, write_bid_analysis:
\* try: execute; commit; return True / except: rollback; return False
write_row(pg, table, params, names, stmtOK) ==
    The({ IF ~e.raised THEN Result(commit(e.pg), "true")
          ELSE The({ IF r.raised THEN Result(r.pg, "raise")
                     ELSE Result(r.pg, "false") : r \in {rollback(e.pg)} })
          : e \in {execute(pg, table, params, names, stmtOK)} })

write_tender(pg, record, stmtOK) ==
    write_row(pg, "core", record, CoreParams, stmtOK)

PdfParams == <<"resource_id", "pdf_url", "pdf_parsed", "pdf_content">>

write_pdf(pg, record, stmtOK) ==
    LET pdf_data ==
            <<<<"resource_id", Get(record, "resource_id", NoneV)>>,
              <<"pdf_url", Get(record, "pdf_url", NoneV)>>,
              <<"pdf_parsed", Get(record, "pdf_parsed", BoolV(FALSE))>>,
              <<"pdf_content", Get(record, "pdf_content", Text(<<>>))>>>>
    IN write_row(pg, "pdf", pdf_data, PdfParams, stmtOK)

CpvParams ==
    <<"resource_id", "cpv_count", "cpv_codes", "cpv_details",
      "has_validated_cpv">>

write_cpv(pg, record, stmtOK) ==
    LET params ==
            <<<<"resource_id", Get(record, "resource_id", NoneV)>>,
              <<"cpv_count", Get(record, "cpv_count", IntV(0))>>,
              <<"cpv_codes", Get(record, "cpv_codes", ListV(<<>>))>>,
              <<"cpv_details", Get(record, "cpv_details", DictV(<<>>))>>,
              <<"has_validated_cpv",
                Get(record, "has_validated_cpv", BoolV(FALSE))>>>>
    IN write_row(pg, "cpv", params, CpvParams, stmtOK)

write_bid_analysis(pg, record, stmtOK) ==
    write_row(pg, "bid", record, BidParams, stmtOK)

\* one of the four write methods, by table
write_one(pg, table, record, stmtOK) ==
    CASE table = "core" -> write_tender(pg, record, stmtOK)
      [] table = "pdf" -> write_pdf(pg, record, stmtOK)
      [] table = "cpv" -> write_cpv(pg, record, stmtOK)
      [] OTHER -> write_bid_analysis(pg, record, stmtOK)

\* one loop of write_records: each record in order, counting the writes
\* that returned True; an empty record of a derived list is skipped; an
\* exception leaving a write ends the loop
RECURSIVE write_loop(_, _, _, _, _)
write_loop(pg, table, records, oks, skip_empty) ==
    IF records = <<>>
    THEN [pg |-> pg, count |-> 0, raised |-> FALSE, res |-> <<>>]
    ELSE IF skip_empty /\ records[1] = <<>>
    THEN The({ [rest EXCEPT !.res = <<"skip">> \o @] :
               rest \in {write_loop(pg, table, Tail(records), Tail(oks),
                                    skip_empty)} })
    ELSE The({
        IF r.res = "raise"
        THEN [pg |-> r.w, count |-> 0, raised |-> TRUE, res |-> <<"raise">>]
        ELSE The({ [rest EXCEPT
                      !.count = @ + (IF r.res = "true" THEN 1 ELSE 0),
                      !.res = <<r.res>> \o @] :
                   rest \in {write_loop(r.w, table, Tail(records), Tail(oks),
                                        skip_empty)} })
        : r \in {write_one(pg, table, records[1], oks[1])} })

\* write_records(tender_records, pdf_records, cpv_records, bid_records):
\* the four loops in turn; an exception leaving a write leaves the call
write_records(pg, tenders, tok, pdfs, pok, cpvs, cok, bids, bok) ==
    The({
      IF t.raised THEN [pg |-> t.pg, raised |-> TRUE, res |-> t.res,
                        counts |-> <<0, 0, 0, 0>>]
      ELSE The({
        IF p.raised THEN [pg |-> p.pg, raised |-> TRUE, res |-> t.res,
                          counts |-> <<0, 0, 0, 0>>]
        ELSE The({
          IF c.raised THEN [pg |-> c.pg, raised |-> TRUE, res |-> t.res,
                            counts |-> <<0, 0, 0, 0>>]
          ELSE The({
            IF b.raised THEN [pg |-> b.pg, raised |-> TRUE, res |-> t.res,
                              counts |-> <<0, 0, 0, 0>>]
            ELSE [pg |-> b.pg, raised |-> FALSE, res |-> t.res,
                  counts |-> <<t.count, p.count, c.count, b.count>>]
            : b \in {write_loop(c.pg, "bid", bids, bok, TRUE)} })
          : c \in {write_loop(p.pg, "cpv", cpvs, cok, TRUE)} })
        : p \in {write_loop(t.pg, "pdf", pdfs, pok, TRUE)} })
      : t \in {write_loop(pg, "core", tenders, tok, FALSE)} })

\* close(): cursor.close(); conn.close().  An open transaction is discarded.
PostgresOutput_close(pg) ==
    [pg EXCEPT !.conn = "closed", !.txn = "idle", !.pending = pg.committed]

----------------------------------------------------------------------------
(* Text and truth values of the pipeline's records *)

\* bool(x)
Truthy(x) ==
    CASE x.t = "none" -> FALSE
      [] x.t = "bool" -> x.v
      [] x.t \in {"int", "float"} -> x.v # 0
      [] x.t \in {"str", "dict", "list"} -> Len(x.v) > 0
      [] OTHER -> TRUE

\* the words of the texts that are eight digits
EightDigits == {"72212731", "48000000", "12345678", "99999999"}

\* re.findall(r'\b(\d{8})\b', x): the eight-digit words of a str, in order;
\* TypeError for anything that is not a str
findall(x) ==
    IF x.t = "str"
    THEN [raised |-> FALSE,
          matches |-> SelectSeq(x.v, LAMBDA word : word \in EightDigits)]
    ELSE [raised |-> TRUE, matches |-> <<>>]

\* the decimal numerals among the words, with their values
Numerals ==
    ("1" :> 1) @@ ("2" :> 2) @@ ("3" :> 3) @@ ("1500" :> 1500)
    @@ ("50000" :> 50000)

\* the words joined without a separator
RECURSIVE Joined(_)
Joined(words) ==
    IF words = <<>> THEN "" ELSE words[1] \o Joined(Tail(words))

\* int(x) / float(x): ValueError for a str that is no numeral, TypeError
\* for None
number_of(x) ==
    CASE x.t = "int" -> [raised |-> FALSE, v |-> x.v]
      [] x.t = "str" /\ Joined(x.v) \in DOMAIN Numerals ->
            [raised |-> FALSE, v |-> Numerals[Joined(x.v)]]
      [] OTHER -> [raised |-> TRUE, v |-> 0]

----------------------------------------------------------------------------
(* type_coercer.py *)

MonthNumber ==
    ("Jan" :> "01") @@ ("Jul" :> "07") @@ ("Nov" :> "11") @@ ("Dec" :> "12")

\* datetime.strptime(date_str.strip(), fmt).isoformat() for the formats of
\* lines 80-85, tried in order; ok is false when none matches
\*   %a %b %d %H:%M:%S %Z %Y    Mon Nov 17 16:51:52 GMT 2025
\*   %d/%m/%Y %H:%M             01 / 07 / 2025 12:00
\*   %d/%m/%Y                   01 / 07 / 2025
strptime_iso(words) ==
    CASE /\ Len(words) = 6
         /\ words[1] \in {"Mon", "Tue", "Wed", "Thu", "Fri", "Sat", "Sun"}
         /\ words[2] \in DOMAIN MonthNumber
         /\ words[5] \in {"GMT", "UTC"} ->
            [ok |-> TRUE,
             iso |-> <<words[6] \o "-" \o MonthNumber[words[2]] \o "-"
                       \o words[3] \o "T" \o words[4]>>]
      [] Len(words) = 6 /\ words[2] = "/" /\ words[4] = "/" ->
            [ok |-> TRUE,
             iso |-> <<words[5] \o "-" \o words[3] \o "-" \o words[1]
                       \o "T" \o words[6] \o ":00">>]
      [] Len(words) = 5 /\ words[2] = "/" /\ words[4] = "/" ->
            [ok |-> TRUE,
             iso |-> <<words[5] \o "-" \o words[3] \o "-" \o words[1]
                       \o "T00:00:00">>]
      [] OTHER -> [ok |-> FALSE, iso |-> <<>>]

\* a parse_date that gives '' for a text no format matches
parse_date_or_empty(date_str) ==
    IF ~Truthy(date_str) THEN Text(<<>>)
    ELSE IF date_str.t = "str" /\ strptime_iso(date_str.v).ok
         THEN Text(strptime_iso(date_str.v).iso)
         ELSE Text(<<>>)

\* parse_date: '' for a falsy value, the ISO text when a format matches,
\* else the value itself (also when it is no str: .strip() raises inside
\* the try)
parse_date(date_str) ==
    IF ~Truthy(date_str) THEN Text(<<>>)
    ELSE IF date_str.t = "str" /\ strptime_iso(date_str.v).ok
         THEN Text(strptime_iso(date_str.v).iso)
         ELSE date_str

\* re.sub(r'[,\s]', '', str(value_str))
value_clean(value_str) ==
    IF value_str.t = "str"
    THEN Text(SelectSeq(value_str.v, LAMBDA word : word \notin {",", " "}))
    ELSE value_str

\* str.lower() of the status words
lower(words) ==
    [i \in 1..Len(words) |->
        CASE words[i] \in {"Open", "OPEN"} -> "open"
          [] words[i] \in {"Closed", "CLOSED"} -> "closed"
          [] OTHER -> words[i]]

\* a coerce_types whose has_estimated_value says whether the value text is
\* there
coerce_types_flag_from_text(record) ==
    LET c1 == The({ IF Truthy(rid)
                    THEN Put(r, "resource_id",
                             The({ IF n.raised THEN NoneV ELSE IntV(n.v) :
                                   n \in {number_of(rid)} }))
                    ELSE r :
                    r \in {record},
                    rid \in {Get(record, "resource_id", NoneV)} })
        c2 == The({ Put(c, "date_published_parsed",
                        parse_date(Get(c, "date_published", Text(<<>>)))) :
                    c \in {c1} })
        c3 == The({ Put(c, "submission_deadline_parsed",
                        parse_date(Get(c, "submission_deadline", Text(<<>>)))) :
                    c \in {c2} })
        c4 == The({ Put(c, "award_date_parsed",
                        parse_date(Get(c, "award_date", Text(<<>>)))) :
                    c \in {c3} })
        c5 == The({ Put(c, "estimated_value_numeric",
                        The({ IF Truthy(value_str)
                              THEN The({ IF n.raised THEN NoneV
                                         ELSE FloatV(n.v) :
                                         n \in {number_of(value_clean(value_str))} })
                              ELSE NoneV :
                              value_str \in {Get(c, "estimated_value", Text(<<>>))} })) :
                    c \in {c4} })
        c6 == The({ Put(c, "cycle_numeric",
                        The({ IF Truthy(cycle)
                              THEN The({ IF n.raised THEN NoneV
                                         ELSE IntV(n.v) :
                                         n \in {number_of(cycle)} })
                              ELSE NoneV :
                              cycle \in {Get(c, "cycle", NoneV)} })) :
                    c \in {c5} })
        c7 == The({ Put(c, "has_pdf_url",
                        BoolV(Truthy(Get(c, "notice_pdf_url", NoneV)))) :
                    c \in {c6} })
        c8 == The({ Put(c, "has_estimated_value",
                        BoolV(Truthy(Get(c, "estimated_value", NoneV)))) :
                    c \in {c7} })
    IN The({ IF status.t # "str" THEN [raised |-> TRUE, record |-> c]
             ELSE [raised |-> FALSE,
                   record |-> Put(c, "is_open",
                                  BoolV(lower(status.v) = <<"open">>))] :
             c \in {c8}, status \in {Get(c8, "status", Text(<<>>))} })

\* coerce_types: raised when record.get('status', '') has no .lower()
coerce_types(record) ==
    LET c1 == The({ IF Truthy(rid)
                    THEN Put(r, "resource_id",
                             The({ IF n.raised THEN NoneV ELSE IntV(n.v) :
                                   n \in {number_of(rid)} }))
                    ELSE r :
                    r \in {record},
                    rid \in {Get(record, "resource_id", NoneV)} })
        c2 == The({ Put(c, "date_published_parsed",
                        parse_date(Get(c, "date_published", Text(<<>>)))) :
                    c \in {c1} })
        c3 == The({ Put(c, "submission_deadline_parsed",
                        parse_date(Get(c, "submission_deadline", Text(<<>>)))) :
                    c \in {c2} })
        c4 == The({ Put(c, "award_date_parsed",
                        parse_date(Get(c, "award_date", Text(<<>>)))) :
                    c \in {c3} })
        c5 == The({ Put(c, "estimated_value_numeric",
                        The({ IF Truthy(value_str)
                              THEN The({ IF n.raised THEN NoneV
                                         ELSE FloatV(n.v) :
                                         n \in {number_of(value_clean(value_str))} })
                              ELSE NoneV :
                              value_str \in {Get(c, "estimated_value", Text(<<>>))} })) :
                    c \in {c4} })
        c6 == The({ Put(c, "cycle_numeric",
                        The({ IF Truthy(cycle)
                              THEN The({ IF n.raised THEN NoneV
                                         ELSE IntV(n.v) :
                                         n \in {number_of(cycle)} })
                              ELSE NoneV :
                              cycle \in {Get(c, "cycle", NoneV)} })) :
                    c \in {c5} })
        c7 == The({ Put(c, "has_pdf_url",
                        BoolV(Truthy(Get(c, "notice_pdf_url", NoneV)))) :
                    c \in {c6} })
        c8 == The({ Put(c, "has_estimated_value",
                        BoolV(Get(c, "estimated_value_numeric", NoneV).t # "none")) :
                    c \in {c7} })
    IN The({ IF status.t # "str" THEN [raised |-> TRUE, record |-> c]
             ELSE [raised |-> FALSE,
                   record |-> Put(c, "is_open",
                                  BoolV(lower(status.v) = <<"open">>))] :
             c \in {c8}, status \in {Get(c8, "status", Text(<<>>))} })

----------------------------------------------------------------------------
(* pdf_parser.py *)

\* text_content[:15000], a word counted as a character
TextBudget == 15000

Truncated(words) ==
    SubSeq(words, 1, IF Len(words) < TextBudget THEN Len(words) ELSE TextBudget)

\* the text of the notice document behind a PDF URL
DocumentText == <<"notice", "48000000", "12345678">>

\* extract_pdf_text: the text, or '' when the download or the extraction
\* raised (fetchOK false)
extract_pdf_text(pdf_url, fetchOK) ==
    IF fetchOK THEN Text(DocumentText) ELSE Text(<<>>)

\* the raw-text fallback dicts of lines 183-196 and 218-222
fallback(text_content, parse_error) ==
    <<<<"pdf_content",
        DictV(<<<<"full_text", Text(Truncated(text_content.v))>>>>
              \o (IF parse_error
                  THEN <<<<"parse_error", Text(<<"JSONDecodeError">>)>>>>
                  ELSE <<>>))>>>>

\* a parse_pdf_with_ollama whose fallback after the failed second parse
\* holds the text alone
parse_pdf_with_ollama_unmarked(text_content, reply) ==
    IF reply.status = "conn_error" THEN <<>>
    ELSE IF reply.status = "error" THEN fallback(text_content, FALSE)
    ELSE IF reply.form = "garbage" THEN fallback(text_content, TRUE)
    ELSE IF reply.form = "braces" THEN fallback(text_content, FALSE)
    ELSE \* "json", or "quoted" after json_text.replace("'", '"')
         LET parsed == reply.value
             result_data ==
                 IF parsed.t = "dict"
                 THEN Get(parsed.v, "metadata", DictV(<<>>))
                 ELSE NoneV
         IN IF parsed.t # "dict" \/ result_data.t # "dict"
            THEN \* AttributeError or TypeError: except Exception
                 fallback(text_content, FALSE)
            ELSE LET with_content ==
                         Put(result_data.v, "pdf_content",
                             Get(parsed.v, "pdf_content", DictV(<<>>)))
                 IN IF ~Truthy(Get(with_content, "pdf_content", NoneV))
                    THEN Put(with_content, "pdf_content",
                             DictV(<<<<"full_text",
                                      Text(Truncated(text_content.v))>>>>))
                    ELSE with_content

\* parse_pdf_with_ollama.  The reply of the service is
\*   status: "conn_error" (ConnectionError), "error" (any other exception
\*           of the request), or "ok"
\*   form:   how the response text reads: "json" (valid JSON), "quoted"
\*           (JSON but for single quotes), "braces" (invalid, with a
\*           {...} span), "garbage" (invalid, no {...} span)
\*   value:  what json.loads makes of the text once it is valid
\* debug is False, the default of process_record and of run_pipeline: lines
\* 157-167 do not run.
parse_pdf_with_ollama(text_content, reply) ==
    IF reply.status = "conn_error" THEN <<>>
    ELSE IF reply.status = "error" THEN fallback(text_content, FALSE)
    ELSE IF reply.form = "garbage" THEN fallback(text_content, TRUE)
    ELSE IF reply.form = "braces" THEN fallback(text_content, TRUE)
    ELSE \* "json", or "quoted" after json_text.replace("'", '"')
         LET parsed == reply.value
             result_data ==
                 IF parsed.t = "dict"
                 THEN Get(parsed.v, "metadata", DictV(<<>>))
                 ELSE NoneV
         IN IF parsed.t # "dict" \/ result_data.t # "dict"
            THEN \* AttributeError or TypeError: except Exception
                 fallback(text_content, FALSE)
            ELSE LET with_content ==
                         Put(result_data.v, "pdf_content",
                             Get(parsed.v, "pdf_content", DictV(<<>>)))
                 IN IF ~Truthy(Get(with_content, "pdf_content", NoneV))
                    THEN Put(with_content, "pdf_content",
                             DictV(<<<<"full_text",
                                      Text(Truncated(text_content.v))>>>>))
                    ELSE with_content

enrich_record_with_pdf(record, fetchOK, reply) ==
    LET pdf_url == Get(record, "notice_pdf_url", Text(<<>>))
        unparsed == Put(Put(record, "pdf_data", NoneV),
                        "pdf_parsed", BoolV(FALSE))
        text_content == extract_pdf_text(pdf_url, fetchOK)
        parsed_data == parse_pdf_with_ollama(text_content, reply)
    IN IF ~Truthy(pdf_url) THEN unparsed
       ELSE IF ~Truthy(text_content) THEN unparsed
       ELSE IF parsed_data # <<>>
            THEN Put(Put(record, "pdf_data", DictV(parsed_data)),
                     "pdf_parsed", BoolV(TRUE))
            ELSE unparsed

\* the requests enrich_record_with_pdf sends, in order: the download of
\* line 250 ("get", requests.get in extract_pdf_text) and the one call of
\* the service of line 259 ("post", requests.post at line 122)
enrich_calls(record, fetchOK) ==
    LET pdf_url == Get(record, "notice_pdf_url", Text(<<>>))
    IN IF ~Truthy(pdf_url) THEN <<>>
       ELSE IF ~Truthy(extract_pdf_text(pdf_url, fetchOK)) THEN <<"get">>
       ELSE <<"get", "post">>

----------------------------------------------------------------------------
(* cpv_list_checker.py *)

\* the codes of cpv_list.json
CPV_CODES == {"72212731", "48000000"}

\* one entry of found_cpvs
cpv_entry(code, description, source, validated) ==
    DictV(<<<<"code", Text(<<code>>)>>, <<"description", description>>,
            <<"source", Text(<<source>>)>>, <<"validated", BoolV(validated)>>>>)

\* the loops over matches without the test for a code already found
RECURSIVE add_matches_without_dedup(_, _, _, _, _)
add_matches_without_dedup(found_cpvs, matches, main_class, source, listed_only) ==
    IF matches = <<>> THEN found_cpvs
    ELSE LET code == matches[1]
             seen == \E i \in 1..Len(found_cpvs) :
                        Get(found_cpvs[i].v, "code", NoneV) = Text(<<code>>)
             take == listed_only => code \in CPV_CODES
         IN add_matches_without_dedup(
              IF take
              THEN Append(found_cpvs,
                          cpv_entry(code,
                                    IF listed_only THEN Text(<<"listed", code>>)
                                    ELSE main_class,
                                    source, code \in CPV_CODES))
              ELSE found_cpvs,
              Tail(matches), main_class, source, listed_only)

\* the loops over matches keeping every code, listed or not
RECURSIVE add_matches_keeping_all(_, _, _, _, _)
add_matches_keeping_all(found_cpvs, matches, main_class, source, listed_only) ==
    IF matches = <<>> THEN found_cpvs
    ELSE LET code == matches[1]
             seen == \E i \in 1..Len(found_cpvs) :
                        Get(found_cpvs[i].v, "code", NoneV) = Text(<<code>>)
             take == ~seen
         IN add_matches_keeping_all(
              IF take
              THEN Append(found_cpvs,
                          cpv_entry(code,
                                    IF listed_only THEN Text(<<"listed", code>>)
                                    ELSE main_class,
                                    source, code \in CPV_CODES))
              ELSE found_cpvs,
              Tail(matches), main_class, source, listed_only)

\* the loops over matches: a code not yet in found_cpvs is appended; outside
\* main_classification only a code of the list is, described by the list
RECURSIVE add_matches(_, _, _, _, _)
add_matches(found_cpvs, matches, main_class, source, listed_only) ==
    IF matches = <<>> THEN found_cpvs
    ELSE LET code == matches[1]
             seen == \E i \in 1..Len(found_cpvs) :
                        Get(found_cpvs[i].v, "code", NoneV) = Text(<<code>>)
             take == ~seen /\ (listed_only => code \in CPV_CODES)
         IN add_matches(
              IF take
              THEN Append(found_cpvs,
                          cpv_entry(code,
                                    IF listed_only THEN Text(<<"listed", code>>)
                                    ELSE main_class,
                                    source, code \in CPV_CODES))
              ELSE found_cpvs,
              Tail(matches), main_class, source, listed_only)

\* lines 54-65: the sections of pdf_content that are strings
RECURSIVE add_sections(_, _)
add_sections(found_cpvs, sections) ==
    IF sections = <<>> THEN found_cpvs
    ELSE add_sections(
           IF sections[1][2].t = "str"
           THEN add_matches(found_cpvs, findall(sections[1][2]).matches, NoneV,
                            "pdf_content_" \o sections[1][1], TRUE)
           ELSE found_cpvs,
           Tail(sections))

\* str(x) of the free-text fields: the words of a str, one word otherwise
str(x) == IF x.t = "str" THEN x.v ELSE <<x.t>>

\* an extract_cpv_codes that keeps the codes of the free text whether
\* listed or not
extract_cpv_codes_trusting_text(record) ==
    LET pdf_data == Get(record, "pdf_data", NoneV)
        use_pdf == Truthy(pdf_data) /\ pdf_data.t = "dict"
        main_class == IF use_pdf
                      THEN Get(pdf_data.v, "main_classification", Text(<<>>))
                      ELSE Text(<<>>)
        f1 == IF Truthy(main_class)
              THEN add_matches(<<>>, findall(main_class).matches, main_class,
                               "pdf_main_classification", FALSE)
              ELSE <<>>
        pdf_content == IF use_pdf
                       THEN Get(pdf_data.v, "pdf_content", DictV(<<>>))
                       ELSE NoneV
        f2 == IF pdf_content.t = "dict" THEN add_sections(f1, pdf_content.v)
              ELSE f1
        full_text == IF use_pdf
                     THEN Get(pdf_data.v, "pdf_content_full_text", Text(<<>>))
                     ELSE Text(<<>>)
        f3 == IF Truthy(full_text)
              THEN add_matches(f2, findall(full_text).matches, NoneV,
                               "pdf_full_text", TRUE)
              ELSE f2
        searchable_text ==
            Text(str(Get(record, "title", Text(<<>>)))
                 \o str(Get(record, "info", Text(<<>>)))
                 \o str(Get(record, "contracting_authority", Text(<<>>))))
    IN IF (Truthy(main_class) /\ findall(main_class).raised)
          \/ (Truthy(full_text) /\ findall(full_text).raised)
       THEN [raised |-> TRUE, found_cpvs |-> <<>>]
       ELSE [raised |-> FALSE,
             found_cpvs |-> add_matches(f3, findall(searchable_text).matches,
                                        NoneV, "text_search", FALSE)]

\* extract_cpv_codes: raised when re.findall is handed a value that is
\* not a str (lines 41 and 70)
extract_cpv_codes(record) ==
    LET pdf_data == Get(record, "pdf_data", NoneV)
        use_pdf == Truthy(pdf_data) /\ pdf_data.t = "dict"
        main_class == IF use_pdf
                      THEN Get(pdf_data.v, "main_classification", Text(<<>>))
                      ELSE Text(<<>>)
        f1 == IF Truthy(main_class)
              THEN add_matches(<<>>, findall(main_class).matches, main_class,
                               "pdf_main_classification", FALSE)
              ELSE <<>>
        pdf_content == IF use_pdf
                       THEN Get(pdf_data.v, "pdf_content", DictV(<<>>))
                       ELSE NoneV
        f2 == IF pdf_content.t = "dict" THEN add_sections(f1, pdf_content.v)
              ELSE f1
        full_text == IF use_pdf
                     THEN Get(pdf_data.v, "pdf_content_full_text", Text(<<>>))
                     ELSE Text(<<>>)
        f3 == IF Truthy(full_text)
              THEN add_matches(f2, findall(full_text).matches, NoneV,
                               "pdf_full_text", TRUE)
              ELSE f2
        searchable_text ==
            Text(str(Get(record, "title", Text(<<>>)))
                 \o str(Get(record, "info", Text(<<>>)))
                 \o str(Get(record, "contracting_authority", Text(<<>>))))
    IN IF (Truthy(main_class) /\ findall(main_class).raised)
          \/ (Truthy(full_text) /\ findall(full_text).raised)
       THEN [raised |-> TRUE, found_cpvs |-> <<>>]
       ELSE [raised |-> FALSE,
             found_cpvs |-> add_matches(f3, findall(searchable_text).matches,
                                        NoneV, "text_search", TRUE)]

check_cpv_codes(record) ==
    LET x == extract_cpv_codes(record)
        cpv_codes == x.found_cpvs
    IN IF x.raised THEN [raised |-> TRUE, record |-> record]
       ELSE [raised |-> FALSE,
             record |->
                Put(Put(Put(Put(record,
                   "cpv_codes", ListV(cpv_codes)),
                   "cpv_count", IntV(Len(cpv_codes))),
                   "has_validated_cpv",
                   BoolV(\E i \in 1..Len(cpv_codes) :
                            Get(cpv_codes[i].v, "validated", NoneV).v)),
                   "cpv_code_list",
                   ListV([i \in 1..Len(cpv_codes) |->
                            Get(cpv_codes[i].v, "code", NoneV)]))]

----------------------------------------------------------------------------
(* main.py : process_record *)

\* the (tender_record, pdf_record, cpv_record) process_record returns, a
\* record that does not exist being None; raised when coerce_types or
\* check_cpv_codes raised (neither call is inside a try)
Processed(raised, tender_record, pdf_record, cpv_record) ==
    [raised |-> raised, tender_record |-> tender_record,
     pdf_record |-> pdf_record, cpv_record |-> cpv_record]

\* lines 75-90, for the coerced tender_record: enriched and pdf_record
enrichment_stage(tender_record, process_pdfs, fetchOK, reply) ==
    IF process_pdfs /\ Truthy(Get(tender_record, "has_pdf_url", NoneV))
    THEN The({
        [enriched |-> enriched,
         pdf_record |->
            IF /\ Truthy(Get(enriched, "pdf_parsed", NoneV))
               /\ Truthy(Get(enriched, "pdf_data", NoneV))
            THEN DictV(DictOf(
                   <<<<"resource_id", Get(tender_record, "resource_id", NoneV)>>,
                     <<"pdf_url", Get(tender_record, "notice_pdf_url", NoneV)>>,
                     <<"pdf_parsed", BoolV(TRUE)>>>>
                   \o Get(enriched, "pdf_data", NoneV).v))
            ELSE NoneV]
        : enriched \in {enrich_record_with_pdf(tender_record, fetchOK, reply)} })
    ELSE [enriched |-> tender_record, pdf_record |-> NoneV]

\* lines 92-111, for the record check_cpv_codes returned
cpv_record_of(tender_record, enriched_cpv) ==
    IF Get(enriched_cpv, "cpv_count", IntV(0)).v > 0
    THEN DictV(<<<<"resource_id", Get(tender_record, "resource_id", NoneV)>>,
                 <<"cpv_count", Get(enriched_cpv, "cpv_count", IntV(0))>>,
                 <<"cpv_codes", Get(enriched_cpv, "cpv_code_list", ListV(<<>>))>>,
                 <<"cpv_details", Get(enriched_cpv, "cpv_codes", ListV(<<>>))>>,
                 <<"has_validated_cpv",
                   Get(enriched_cpv, "has_validated_cpv", BoolV(FALSE))>>>>)
    ELSE NoneV

\* a process_record that checks codes only for a record whose enrichment,
\* when it was tried, gave a PDF record
process_record_checking_enriched_only(record, process_pdfs, check_cpvs, fetchOK, reply) ==
    The({
      IF c.raised THEN Processed(TRUE, NoneV, NoneV, NoneV)
      ELSE The({
        IF \/ ~check_cpvs
           \/ /\ process_pdfs
              /\ Truthy(Get(c.record, "has_pdf_url", NoneV))
              /\ e.pdf_record.t = "none"
        THEN Processed(FALSE, DictV(c.record), e.pdf_record, NoneV)
        ELSE The({
          IF k.raised THEN Processed(TRUE, NoneV, NoneV, NoneV)
          ELSE Processed(FALSE, DictV(c.record), e.pdf_record,
                         cpv_record_of(c.record, k.record))
          : k \in {check_cpv_codes(e.enriched)} })
        : e \in {enrichment_stage(c.record, process_pdfs, fetchOK, reply)} })
      : c \in {coerce_types(record)} })

process_record(record, process_pdfs, check_cpvs, fetchOK, reply) ==
    The({
      IF c.raised THEN Processed(TRUE, NoneV, NoneV, NoneV)
      ELSE The({
        IF ~check_cpvs
        THEN Processed(FALSE, DictV(c.record), e.pdf_record, NoneV)
        ELSE The({
          IF k.raised THEN Processed(TRUE, NoneV, NoneV, NoneV)
          ELSE Processed(FALSE, DictV(c.record), e.pdf_record,
                         cpv_record_of(c.record, k.record))
          : k \in {check_cpv_codes(e.enriched)} })
        : e \in {enrichment_stage(c.record, process_pdfs, fetchOK, reply)} })
      : c \in {coerce_types(record)} })

\* a process_record that enriches whether or not process_pdfs is set
process_record_calls_always_enriching(record, process_pdfs, fetchOK) ==
    The({
      IF c.raised THEN <<>>
      ELSE IF Truthy(Get(c.record, "has_pdf_url", NoneV))
           THEN enrich_calls(c.record, fetchOK)
           ELSE <<>>
      : c \in {coerce_types(record)} })

\* the requests process_record sends: those of enrich_record_with_pdf when
\* line 78 lets it be called
process_record_calls(record, process_pdfs, fetchOK) ==
    The({
      IF c.raised THEN <<>>
      ELSE IF process_pdfs /\ Truthy(Get(c.record, "has_pdf_url", NoneV))
           THEN enrich_calls(c.record, fetchOK)
           ELSE <<>>
      : c \in {coerce_types(record)} })

----------------------------------------------------------------------------
(* The writers on their own: any sequence of calls on one instance *)

\* records handed to a file writer
SinkRecord(i) ==
    CASE i = 1 -> <<<<"resource_id", IntV(1)>>, <<"title", Text(<<"a">>)>>>>
      [] i = 2 -> <<<<"resource_id", IntV(2)>>, <<"title", Text(<<"b">>)>>,
                    <<"extra", Text(<<"x">>)>>>>
      [] i = 3 -> <<<<"resource_id", IntV(3)>>,
                    <<"meta", DictV(<<<<"title", Text(<<"c">>)>>,
                                      <<"when", ObjV("2025-12-01")>>>>)>>,
                    <<"tags", ListV(<<Text(<<"t">>)>>)>>>>
      [] i = 4 -> <<<<"resource_id", IntV(4)>>, <<"title", CycList>>>>
      [] OTHER -> <<<<"resource_id", IntV(5)>>, <<"title", SurrV("d800")>>>>

SinkRecordIds == 1..5

\* a tender record with every column of the core table
FullTender(id, title) ==
    [i \in 1..Len(CoreParams) |->
        <<CoreParams[i],
          CASE CoreParams[i] = "resource_id" -> id
            [] CoreParams[i] = "title" -> Text(<<title>>)
            [] OTHER -> NoneV>>]

\* tender records handed to the store writer: 3 rewrites the identifier of
\* 1, 4 lacks columns the INSERT names
PgTender(i) ==
    CASE i = 1 -> FullTender(IntV(1), "a")
      [] i = 2 -> FullTender(IntV(2), "b")
      [] i = 3 -> FullTender(IntV(1), "c")
      [] OTHER -> <<<<"resource_id", IntV(3)>>, <<"title", Text(<<"d">>)>>>>

PgTenderIds == 1..4

\* the first of them have every column
FullTenderIds == 1..3

PgPdf(id) ==
    <<<<"resource_id", IntV(id)>>, <<"pdf_url", Text(<<"u">>)>>,
      <<"pdf_parsed", BoolV(TRUE)>>, <<"pdf_content", Text(<<"text">>)>>>>

PgCpv(id) ==
    <<<<"resource_id", IntV(id)>>, <<"cpv_count", IntV(1)>>,
      <<"cpv_codes", ListV(<<Text(<<"72212731">>)>>)>>,
      <<"has_validated_cpv", BoolV(TRUE)>>>>

PgBid(id) ==
    [i \in 1..Len(BidParams) |->
        <<BidParams[i],
          IF BidParams[i] = "resource_id" THEN IntV(id) ELSE NoneV>>]

\* the derived lists handed to write_records: none, or a PDF list with
\* an empty entry, a CPV list and a bid list
DerivedLists(d) ==
    IF d = 1 THEN [pdfs |-> <<>>, cpvs |-> <<>>, bids |-> <<>>]
    ELSE [pdfs |-> <<<<>>, PgPdf(2)>>, cpvs |-> <<PgCpv(2)>>,
          bids |-> <<PgBid(1)>>]

\* the last call on the instance, how it ended, and the records whose
\* write has returned True so far
Call(op, arg, res, ok) == [op |-> op, arg |-> arg, res |-> res, ok |-> ok]

\* no function has been called on its own
FnIdle ==
    /\ fn = "none"
    /\ given = <<>>
    /\ returned = <<>>

RunIdle ==
    /\ cfg = [output_format |-> "none", process_pdfs |-> FALSE,
              check_cpvs |-> FALSE]
    /\ pc = "idle"
    /\ tenders_output = <<>>
    /\ pdfs_output = <<>>
    /\ cpvs_output = <<>>
    /\ counters = <<>>
    /\ last = <<>>

WriterInit ==
    /\ wkind \in {"json", "csv", "postgres"}
    /\ \E streaming \in BOOLEAN :
          out = CASE wkind = "json" -> JSONOutput(streaming)
                  [] wkind = "csv" -> CSVOutput(streaming)
                  [] OTHER -> PostgresOutput
    /\ ret = Call("init", <<>>, "none", <<>>)
    /\ calls = 0
    /\ RunIdle
    /\ FnIdle

\* a call on the instance: the writer after it (lost when the call raised
\* before changing it) and what the caller got
Called(op, arg, r, cost) ==
    /\ out' = r.w
    /\ ret' = Call(op, arg, r.res,
                   IF op = "write" /\ r.res = "true"
                   THEN Append(ret.ok, arg) ELSE ret.ok)
    /\ calls' = calls + cost
    /\ UNCHANGED <<wkind, runVars, fnVars>>

JsonWriteRecord ==
    /\ wkind = "json" /\ calls < MaxCalls
    /\ \E i \in SinkRecordIds, logOK \in BOOLEAN :
          \E r \in {JSONOutput_write_record(out, SinkRecord(i), logOK)} :
             Called("write", i, r, 1)

JsonFlush ==
    /\ wkind = "json" /\ calls < MaxCalls
    /\ \E openOK \in BOOLEAN, logOK \in BOOLEAN :
          \E r \in {JSONOutput_flush(out, openOK, logOK)} :
             Called("flush", 0, r, 1)

CsvWriteRecord ==
    /\ wkind = "csv" /\ calls < MaxCalls
    /\ \E i \in SinkRecordIds, logOK \in BOOLEAN :
          \E r \in {CSVOutput_write_record(out, SinkRecord(i), logOK)} :
             Called("write", i, r, 1)

CsvFlush ==
    /\ wkind = "csv" /\ calls < MaxCalls
    /\ \E openOK \in BOOLEAN, logOK \in BOOLEAN :
          \E r \in {CSVOutput_flush(out, openOK, logOK)} :
             Called("flush", 0, r, 1)

PgWriteTender ==
    /\ wkind = "postgres" /\ calls < MaxStatements
    /\ \E i \in PgTenderIds, stmtOK \in BOOLEAN :
          \E r \in {write_tender(out, PgTender(i), stmtOK)} :
             Called("write", <<i, stmtOK>>, r, 1)

PgWritePdf ==
    /\ wkind = "postgres" /\ calls < MaxStatements
    /\ \E id \in 1..2, stmtOK \in BOOLEAN :
          \E r \in {write_pdf(out, PgPdf(id), stmtOK)} :
             Called("write_pdf", <<id, stmtOK>>, r, 1)

PgWriteCpv ==
    /\ wkind = "postgres" /\ calls < MaxStatements
    /\ \E id \in 1..2, stmtOK \in BOOLEAN :
          \E r \in {write_cpv(out, PgCpv(id), stmtOK)} :
             Called("write_cpv", <<id, stmtOK>>, r, 1)

PgWriteBidAnalysis ==
    /\ wkind = "postgres" /\ calls < MaxStatements
    /\ \E id \in 1..2, stmtOK \in BOOLEAN :
          \E r \in {write_bid_analysis(out, PgBid(id), stmtOK)} :
             Called("write_bid", <<id, stmtOK>>, r, 1)

PgWriteRecords ==
    /\ wkind = "postgres" /\ calls < MaxStatements
    /\ \E n \in 1..(MaxStatements - calls), d \in 1..2 :
          \E batch \in [1..n -> FullTenderIds], tok \in [1..n -> BOOLEAN] :
             \E r \in {write_records(
                          out, [i \in 1..n |-> PgTender(batch[i])], tok,
                          DerivedLists(d).pdfs, <<TRUE, TRUE>>,
                          DerivedLists(d).cpvs, <<FALSE>>,
                          DerivedLists(d).bids, <<TRUE>>)} :
                Called("write_records", [batch |-> batch, tok |-> tok],
                       [w |-> r.pg,
                        res |-> IF r.raised THEN "raise" ELSE "none"], n)

PgClose ==
    /\ wkind = "postgres" /\ calls < MaxStatements
    /\ Called("close", 0, Result(PostgresOutput_close(out), "none"), 1)

WriterNext ==
    \/ JsonWriteRecord \/ JsonFlush
    \/ CsvWriteRecord \/ CsvFlush
    \/ PgWriteTender \/ PgWritePdf \/ PgWriteCpv \/ PgWriteBidAnalysis
    \/ PgWriteRecords \/ PgClose

WriterSpec == WriterInit /\ [][WriterNext]_vars

----------------------------------------------------------------------------
(* Properties of the writers, checked under WriterSpec *)

\* C6: for every sink writer, in every state a sequence of write and
\* flush/close calls reaches, a write call does not raise: it returns True
\* or False.
C6_WriteNeverRaises ==
    ret.op = "write" => ret.res \in {"true", "false"}

\* the core table after the tender records of a batch whose statement the
\* store accepted have been upserted, in order, into table
RECURSIVE UpsertAccepted(_, _, _)
UpsertAccepted(table, batch, tok) ==
    IF batch = <<>> THEN table
    ELSE UpsertAccepted(
           IF tok[1]
           THEN upsert(table, "core", PgTender(batch[1]), CoreParams)
           ELSE table,
           Tail(batch), Tail(tok))

\* C7: when write_records writes N tender records over an open connection
\* and the store rejects the statement of some of them, every other record
\* of the batch is committed and only the rejected statements are rolled
\* back: the committed core table is the one before the call with exactly
\* the accepted records upserted.
C7_StoreFaultIsolation ==
    [][(ret'.op = "write_records" /\ out.conn = "open") =>
          /\ ret'.res = "none"
          /\ out'.committed.core =
                UpsertAccepted(out.committed.core,
                               [i \in 1..Len(ret'.arg.batch) |-> ret'.arg.batch[i]],
                               [i \in 1..Len(ret'.arg.tok) |-> ret'.arg.tok[i]])
          /\ out'.txn = "idle"]_vars

\* a batch of three whose second statement was rejected: the first and the
\* third (an update of the first) are committed, the second is not
C7_Witness ==
    /\ wkind = "postgres"
    /\ ret.op = "write_records"
    /\ Len(ret.arg.batch) = 3
    /\ ret.arg.batch[1] = 1 /\ ret.arg.batch[2] = 2 /\ ret.arg.batch[3] = 3
    /\ ret.arg.tok[1] /\ ~ret.arg.tok[2] /\ ret.arg.tok[3]
    /\ HasKey(out.committed.core, IntV(1))
    /\ ~HasKey(out.committed.core, IntV(2))
    /\ out.txn = "idle"

\* the columns the cells of a row were written for
Columns(row) == [i \in 1..Len(row) |-> row[i].col]

\* C9: in streaming mode every row of the CSV file has exactly the columns
\* of the header row, also after a record with novel fields was written.
C9_RowsMatchHeader ==
    (wkind = "csv" /\ out.streaming) =>
        \A i \in 1..Len(out.file) : Columns(out.file[i]) = Columns(out.file[1])

\* the JSON text of the records whose write returned True
OkTexts == [j \in 1..Len(ret.ok) |-> dumps(SinkRecord(ret.ok[j])).text]

\* C10: the streaming JSON file is one opening bracket, then the records
\* whose write returned True, in write order, with exactly one separator
\* between consecutive records, none before the first or after the last,
\* and after flush one closing bracket; a failed write adds nothing.
C10_JsonArrayShape ==
    (wkind = "json" /\ out.streaming) =>
        LET n == Len(ret.ok)
            closed == IF out.file_handle = "none" THEN 1 ELSE 0
        IN /\ Len(out.file) = 1 + (IF n = 0 THEN 0 ELSE 2 * n - 1) + closed
           /\ out.file[1] = TokOpen
           /\ \A j \in 1..n : out.file[2 * j] = TokRec(OkTexts[j])
           /\ \A j \in 1..(n - 1) : out.file[2 * j + 1] = TokSep
           /\ closed = 1 => out.file[Len(out.file)] = TokClose

\* two records written around a write that failed, then flush
C10_Witness ==
    /\ wkind = "json" /\ out.streaming
    /\ out.file_handle = "none"
    /\ Len(ret.ok) = 2
    /\ out.error_count = 1
    /\ ret.op = "flush"

\* writer.get_stats() for a writer of the given class: PostgresOutput has
\* no get_stats and keeps no counter (AttributeError)
get_stats(kind, w) ==
    CASE kind = "json" -> [raised |-> FALSE, stats |-> JSONOutput_get_stats(w)]
      [] kind = "csv" -> [raised |-> FALSE, stats |-> CSVOutput_get_stats(w)]
      [] OTHER -> [raised |-> TRUE, stats |-> <<>>]

\* by how much a counter of the stats went up in the step
Counted(kind, before, after, counter) ==
    Get(get_stats(kind, after).stats, counter, IntV(0)).v
    - Get(get_stats(kind, before).stats, counter, IntV(0)).v

\* C11: every writer exposes its counters through its stats accessor, and
\* each write call is counted once: as written when it returned True, as
\* failed when it returned False (so that written is the number of calls
\* that returned True, failed the number that returned False, and attempted
\* their sum).
C11_StatsCountReturns ==
    [][ret'.op = "write" =>
          /\ ~get_stats(wkind, out').raised
          /\ Counted(wkind, out, out', "records_written") =
                (IF ret'.res = "true" THEN 1 ELSE 0)
          /\ Counted(wkind, out, out', "errors") =
                (IF ret'.res = "false" THEN 1 ELSE 0)]_vars

----------------------------------------------------------------------------
(* main.py : run_pipeline *)

\* PostgresOutput(**kwargs): __init__(self) takes no argument, so any
\* keyword raises TypeError before the body runs; the body calls connect(),
\* which re-raises when the database cannot be reached
new_PostgresOutput(kwargs, db_up) ==
    IF kwargs # {} THEN [raised |-> TRUE, w |-> <<>>]
    ELSE IF ~db_up THEN [raised |-> TRUE, w |-> <<>>]
    ELSE [raised |-> FALSE, w |-> PostgresOutput]

\* connect(): raises when the database cannot be reached, else returns None
connect(db_up) == [raised |-> ~db_up, value |-> NoneV]

\* a sink of the run: the writer class and the instance
Sink(kind, w) == [kind |-> kind, w |-> w]

NoSink == Sink("none", <<>>)

Outputs(res, t, p, c) ==
    [res |-> res, tenders_output |-> t, pdfs_output |-> p, cpvs_output |-> c]

\* a set-up that goes on with the three handlers whether or not they could
\* be constructed and connected
open_outputs_ignoring_connect(output_format, db_up) ==
    CASE output_format = "json" ->
            Outputs("ok", Sink("json", JSONOutput(TRUE)),
                    Sink("json", JSONOutput(TRUE)), Sink("json", JSONOutput(TRUE)))
      [] output_format = "csv" ->
            Outputs("ok", Sink("csv", CSVOutput(TRUE)),
                    Sink("csv", CSVOutput(TRUE)), Sink("csv", CSVOutput(TRUE)))
      [] output_format = "postgres" ->
            Outputs("ok", Sink("postgres", PostgresOutput),
                    Sink("postgres", PostgresOutput),
                    Sink("postgres", PostgresOutput))
      [] OTHER -> Outputs("raise", NoSink, NoSink, NoSink)

\* lines 155-176: "ok" with the three handlers, "abort" for the return of
\* line 173, "raise" for an exception
open_outputs(output_format, db_up) ==
    CASE output_format = "json" ->
            Outputs("ok", Sink("json", JSONOutput(TRUE)),
                    Sink("json", JSONOutput(TRUE)), Sink("json", JSONOutput(TRUE)))
      [] output_format = "csv" ->
            Outputs("ok", Sink("csv", CSVOutput(TRUE)),
                    Sink("csv", CSVOutput(TRUE)), Sink("csv", CSVOutput(TRUE)))
      [] output_format = "postgres" ->
            LET t == new_PostgresOutput({"table_name"}, db_up)
                p == new_PostgresOutput({"table_name"}, db_up)
                c == new_PostgresOutput({"table_name"}, db_up)
            IN IF t.raised \/ p.raised \/ c.raised
               THEN Outputs("raise", NoSink, NoSink, NoSink)
               ELSE IF connect(db_up).raised
                    THEN Outputs("raise", NoSink, NoSink, NoSink)
                    ELSE IF ~Truthy(connect(db_up).value)
                         THEN Outputs("abort", NoSink, NoSink, NoSink)
                         ELSE \* output.create_table(): no such method
                              Outputs("raise", NoSink, NoSink, NoSink)
      [] OTHER -> Outputs("raise", NoSink, NoSink, NoSink)

\* output.write_record(record): PostgresOutput has no write_record
write_record(sink, record, logOK) ==
    CASE sink.kind = "json" ->
            The({ [sink |-> Sink("json", r.w), res |-> r.res]
                  : r \in {JSONOutput_write_record(sink.w, record.v, logOK)} })
      [] sink.kind = "csv" ->
            The({ [sink |-> Sink("csv", r.w), res |-> r.res]
                  : r \in {CSVOutput_write_record(sink.w, record.v, logOK)} })
      [] OTHER -> [sink |-> sink, res |-> "raise"]

\* output.flush(): PostgresOutput has no flush
flush(sink) ==
    CASE sink.kind = "json" ->
            The({ [sink |-> Sink("json", r.w), res |-> r.res]
                  : r \in {JSONOutput_flush(sink.w, TRUE, TRUE)} })
      [] sink.kind = "csv" ->
            The({ [sink |-> Sink("csv", r.w), res |-> r.res]
                  : r \in {CSVOutput_flush(sink.w, TRUE, TRUE)} })
      [] OTHER -> [sink |-> sink, res |-> "raise"]

\* lines 199-203
ZeroCounters ==
    [total_records |-> 0, tenders_written |-> 0, pdfs_written |-> 0,
     cpvs_written |-> 0, failed_records |-> 0]

Count(n, counter) == [n EXCEPT ![counter] = @ + 1]

\* the run after one pass of the loop body, and what the pass did: what
\* process_record returned and how each write_record call ended ("none"
\* when it was not made)
Pass(t, p, c, n, pr, tender_res, pdf_res, cpv_res) ==
    [tenders_output |-> t, pdfs_output |-> p, cpvs_output |-> c,
     counters |-> n, processed |-> pr, tender_res |-> tender_res,
     pdf_res |-> pdf_res, cpv_res |-> cpv_res]

NotWritten(sink) == [sink |-> sink, res |-> "none"]

\* lines 208-248 for one record of the scraper
loop_body(t, p, c, n, conf, record, fetchOK, reply, logOK) ==
    The({
      IF pr.raised
      THEN Pass(t, p, c, Count(Count(n, "total_records"), "failed_records"),
                pr, "none", "none", "none")
      ELSE The({
        IF tw.res = "raise"
        THEN Pass(tw.sink, p, c,
                  Count(Count(n, "total_records"), "failed_records"),
                  pr, "raise", "none", "none")
        ELSE The({
          IF pw.res = "raise"
          THEN Pass(tw.sink, pw.sink, c,
                    Count(Count(Count(n, "total_records"),
                                IF tw.res = "true" THEN "tenders_written"
                                ELSE "failed_records"),
                          "failed_records"),
                    pr, tw.res, "raise", "none")
          ELSE The({
            LET n1 == Count(n, "total_records")
                n2 == Count(n1, IF tw.res = "true" THEN "tenders_written"
                                ELSE "failed_records")
                n3 == IF pw.res = "true" THEN Count(n2, "pdfs_written") ELSE n2
                n4 == CASE cw.res = "true" -> Count(n3, "cpvs_written")
                        [] cw.res = "none" -> n3
                        [] OTHER -> Count(n3, "failed_records")
            IN Pass(tw.sink, pw.sink, cw.sink, n4, pr, tw.res, pw.res, cw.res)
            : cw \in {IF Truthy(pr.cpv_record)
                      THEN write_record(c, pr.cpv_record, logOK)
                      ELSE NotWritten(c)} })
          : pw \in {IF Truthy(pr.pdf_record)
                    THEN write_record(p, pr.pdf_record, logOK)
                    ELSE NotWritten(p)} })
        : tw \in {write_record(t, pr.tender_record, logOK)} })
      : pr \in {process_record(record, conf.process_pdfs, conf.check_cpvs,
                               fetchOK, reply)} })


----------------------------------------------------------------------------
(* One run of the pipeline *)

\* etenders_scraper.py lines 69-106: the flat record of strings scraped
\* from one row of the result table
tender_data(resource_id, title, status, date_published, pdf_url, value) ==
    <<<<"row_number", Text(<<"1">>)>>,
      <<"title", Text(title)>>,
      <<"detail_url", Text(<<"https://www.etenders.gov.ie/d">>)>>,
      <<"resource_id", Text(resource_id)>>,
      <<"contracting_authority", Text(<<"Council">>)>>,
      <<"info", Text(<<>>)>>,
      <<"date_published", Text(date_published)>>,
      <<"submission_deadline", Text(<<>>)>>,
      <<"procedure", Text(<<"Open">>)>>,
      <<"status", Text(status)>>,
      <<"notice_pdf_url", Text(pdf_url)>>,
      <<"award_date", Text(<<>>)>>,
      <<"estimated_value", Text(value)>>,
      <<"cycle", Text(<<>>)>>>>

\* the records scrape_pages can yield: 1 has no PDF link and a listed code
\* in its title, 2 a PDF link and no code, 3 a PDF link and a listed code
RawRecord(i) ==
    CASE i = 1 -> tender_data(<<"1">>, <<"Software", "72212731">>, <<"Open">>,
                              <<"Mon", "Nov", "17", "16:51:52", "GMT", "2025">>,
                              <<>>, <<"1", ",", "500">>)
      [] i = 2 -> tender_data(<<"2">>, <<"Road", "works">>, <<"Closed">>,
                              <<"01", "/", "07", "/", "2025">>,
                              <<"https://www.etenders.gov.ie/n2.pdf">>, <<>>)
      [] OTHER -> tender_data(<<"3">>, <<"Licences", "48000000">>, <<"Open">>,
                              <<>>, <<"https://www.etenders.gov.ie/n3.pdf">>,
                              <<"n/a">>)

RawRecordIds == 1..3

ServiceReply(status, form, value) ==
    [status |-> status, form |-> form, value |-> value]

Sections == DictV(<<<<"Overview", Text(<<"supply", "48000000">>)>>>>)

\* what the classification service can answer
Reply(i) ==
    CASE i = 1 -> ServiceReply("conn_error", "garbage", NoneV)
      [] i = 2 -> ServiceReply("error", "garbage", NoneV)
      [] i = 3 -> ServiceReply("ok", "garbage", NoneV)
      [] i = 4 -> ServiceReply("ok", "braces", NoneV)
      [] i = 5 -> ServiceReply("ok", "json",
            DictV(<<<<"metadata",
                      DictV(<<<<"title", Text(<<"Road", "works">>)>>,
                              <<"main_classification",
                                Text(<<"72212731", "12345678">>)>>>>)>>,
                    <<"pdf_content", Sections>>>>))
      [] i = 6 -> ServiceReply("ok", "quoted",
            DictV(<<<<"metadata",
                      DictV(<<<<"buyer_name", Text(<<"Council">>)>>>>)>>>>))
      [] i = 7 -> ServiceReply("ok", "json",
            DictV(<<<<"metadata",
                      DictV(<<<<"main_classification", IntV(72212731)>>>>)>>,
                    <<"pdf_content", Sections>>>>))
      [] i = 8 -> ServiceReply("ok", "json", ListV(<<>>))
      [] OTHER -> ServiceReply("ok", "json",
            DictV(<<<<"metadata",
                      DictV(<<<<"buyer_name", SurrV("d800")>>,
                              <<"main_classification",
                                Text(<<"72212731">>)>>>>)>>,
                    <<"pdf_content", Sections>>>>))

ReplyIds == 1..9

\* the inputs of the last pass of the loop and what the pass did
NoPass ==
    [record |-> 0, fetchOK |-> TRUE, reply |-> 1, logOK |-> TRUE,
     processed |-> Processed(FALSE, NoneV, NoneV, NoneV),
     tender_res |-> "none", pdf_res |-> "none", cpv_res |-> "none"]

WriterIdle ==
    /\ wkind = "none"
    /\ out = <<>>
    /\ ret = <<>>
    /\ calls = 0

Init ==
    /\ cfg \in {c \in [output_format : {"json", "csv", "postgres"},
                      process_pdfs : BOOLEAN, check_cpvs : BOOLEAN,
                      db_up : BOOLEAN] :
                  c.output_format # "postgres" => c.db_up}
    /\ pc = "start"
    /\ tenders_output = NoSink
    /\ pdfs_output = NoSink
    /\ cpvs_output = NoSink
    /\ counters = ZeroCounters
    /\ last = NoPass
    /\ WriterIdle
    /\ FnIdle

\* lines 145-203: the output handlers are set up
OpenOutputs ==
    /\ pc = "start"
    /\ \E o \in {open_outputs(cfg.output_format, cfg.db_up)} :
          /\ pc' = CASE o.res = "ok" -> "loop"
                     [] o.res = "abort" -> "aborted"
                     [] OTHER -> "raised"
          /\ tenders_output' = o.tenders_output
          /\ pdfs_output' = o.pdfs_output
          /\ cpvs_output' = o.cpvs_output
    /\ UNCHANGED <<cfg, counters, last, writerVars, fnVars>>

\* the document is fetched and the service asked only for a record with a
\* PDF link when process_pdfs is set; the service only after a fetch that
\* gave text
Fetches(i) ==
    IF cfg.process_pdfs /\ Truthy(Get(RawRecord(i), "notice_pdf_url", NoneV))
    THEN BOOLEAN ELSE {TRUE}

Replies(i, fetchOK) ==
    IF cfg.process_pdfs /\ Truthy(Get(RawRecord(i), "notice_pdf_url", NoneV))
       /\ fetchOK
    THEN ReplyIds ELSE {1}

\* a write of the pass failed and went to the error log
LogConsulted(b) ==
    \E res \in {b.tender_res, b.pdf_res, b.cpv_res} : res \in {"false", "raise"}

\* lines 207-248: the scraper yields one more record and the loop body runs
\* (last.logOK says whether the error log could be opened, and is TRUE when
\* no write of the pass went to it)
NextRecord ==
    /\ pc = "loop"
    /\ counters.total_records < MaxRecords
    /\ \E i \in RawRecordIds, logOK \in BOOLEAN :
        \E fetchOK \in Fetches(i) :
          \E r \in Replies(i, fetchOK) :
            \E b \in {loop_body(tenders_output, pdfs_output, cpvs_output,
                                counters, cfg, RawRecord(i), fetchOK,
                                Reply(r), logOK)} :
                /\ tenders_output' = b.tenders_output
                /\ pdfs_output' = b.pdfs_output
                /\ cpvs_output' = b.cpvs_output
                /\ counters' = b.counters
                /\ last' = [record |-> i, fetchOK |-> fetchOK, reply |-> r,
                            logOK |-> logOK \/ ~LogConsulted(b),
                            processed |-> b.processed,
                            tender_res |-> b.tender_res,
                            pdf_res |-> b.pdf_res, cpv_res |-> b.cpv_res]
    /\ UNCHANGED <<cfg, pc, writerVars, fnVars>>

\* lines 250-260: the scraper is exhausted, the outputs are flushed
FlushOutputs ==
    /\ pc = "loop"
    /\ \E ft \in {flush(tenders_output)} :
         \E fp \in {IF ft.res = "raise" THEN NotWritten(pdfs_output)
                    ELSE flush(pdfs_output)} :
           \E fc \in {IF "raise" \in {ft.res, fp.res}
                      THEN NotWritten(cpvs_output)
                      ELSE flush(cpvs_output)} :
              /\ tenders_output' = ft.sink
              /\ pdfs_output' = fp.sink
              /\ cpvs_output' = fc.sink
              /\ pc' = IF "raise" \in {ft.res, fp.res, fc.res}
                       THEN "raised" ELSE "done"
    /\ UNCHANGED <<cfg, counters, last, writerVars, fnVars>>

\* the finally of lines 255-260: the handlers of a postgres run are closed
close_outputs(sink) ==
    IF sink.kind = "postgres"
    THEN Sink("postgres", PostgresOutput_close(sink.w))
    ELSE sink

\* an exception leaves the for loop of line 207: one raised by scrape_pages
\* when asked for the next record, or one the except of line 241 does not
\* catch (KeyboardInterrupt).  The flushes of lines 251-253 are skipped and
\* the finally runs.
LoopRaises ==
    /\ pc = "loop"
    /\ pc' = "interrupted"
    /\ tenders_output' = close_outputs(tenders_output)
    /\ pdfs_output' = close_outputs(pdfs_output)
    /\ cpvs_output' = close_outputs(cpvs_output)
    /\ UNCHANGED <<cfg, counters, last, writerVars, fnVars>>

Next == OpenOutputs \/ NextRecord \/ FlushOutputs \/ LoopRaises

Spec == Init /\ [][Next]_vars

----------------------------------------------------------------------------
(* Properties of a run, checked under Spec *)

\* a pass of the loop body has run
Looped == last.record # 0

\* the record of the last pass has a PDF link and PDF processing is on
EnrichmentTried ==
    /\ Looped
    /\ cfg.process_pdfs
    /\ Get(RawRecord(last.record), "notice_pdf_url", Text(<<>>)) # Text(<<>>)

\* the download or the extraction failed, the service was unavailable or
\* failed, or its response could not be parsed
EnrichmentFailed ==
    /\ EnrichmentTried
    /\ \/ ~last.fetchOK
       \/ Reply(last.reply).status \in {"conn_error", "error"}
       \/ Reply(last.reply).form \in {"garbage", "braces"}

\* the service answered with a main_classification that is no string, which
\* makes the code check raise
CodeCheckRaises ==
    /\ EnrichmentTried
    /\ cfg.check_cpvs
    /\ last.fetchOK
    /\ last.reply = 7

\* the title of the record of the last pass holds a listed code
TitleHasListedCode ==
    \E word \in Range(Get(RawRecord(last.record), "title", Text(<<>>)).v) :
        word \in CPV_CODES

Last(seq) == seq[Len(seq)]

\* the last piece of the sink's file is what the writer makes of record
\* alone: for JSON its JSON text, for CSV a row whose cells hold the
\* record's own flattened values
HoldsLast(sink, record) ==
    /\ Len(sink.w.file) > 0
    /\ \E piece \in {Last(sink.w.file)} :
         CASE sink.kind = "json" ->
                piece = TokRec(dumps(record.v).text)
           [] sink.kind = "csv" ->
                \E flat \in {flatten_record(record.v)} :
                   /\ \A i \in 1..Len(piece) :
                         piece[i].val = Get(flat, piece[i].col, Text(<<>>))
                   /\ \A k \in Range(Keys(flat)) :
                         \E i \in 1..Len(piece) : piece[i].col = k
           [] OTHER -> FALSE

\* C1: in every pass of the loop in which process_record returned, the
\* write of each derived record that exists (PDF record, CPV record) was
\* attempted, whatever became of the write of the tender record or of the
\* other derived record.
C1_DerivedWritesAttempted ==
    (Looped /\ ~last.processed.raised) =>
        /\ Truthy(last.processed.pdf_record) => last.pdf_res # "none"
        /\ Truthy(last.processed.cpv_record) => last.cpv_res # "none"

\* the loop body run for the same inputs as the pass just made, on newly
\* opened outputs
FreshPass(conf, l) ==
    The({ loop_body(o.tenders_output, o.pdfs_output, o.cpvs_output,
                    ZeroCounters, conf, RawRecord(l.record), l.fetchOK,
                    Reply(l.reply), l.logOK) :
          o \in {open_outputs(conf.output_format, conf.db_up)} })

\* the row a CSV writer, or the text a JSON writer, leaves for record when
\* it is the only record written
WrittenAlone(kind, record) ==
    Last(write_record(Sink(kind, IF kind = "json" THEN JSONOutput(TRUE)
                                 ELSE CSVOutput(TRUE)),
                      record, TRUE).sink.w.file)

C3_AlwaysEmitted ==
    Looped =>
        /\ ~last.processed.raised
        /\ last.processed.tender_record.t = "dict"
        /\ last.processed.pdf_record.t \in {"dict", "none"}
        /\ last.processed.cpv_record.t \in {"dict", "none"}

\* C4: when enrichment fails, the record is still processed and the run
\* goes on: process_record returns the tender record, the tender record is
\* written, and with code checking on the codes of the record are still
\* found and written.
C4_EnrichmentFailureDegrades ==
    EnrichmentFailed =>
        /\ pc \in {"loop", "done", "interrupted"}
        /\ ~last.processed.raised
        /\ last.processed.tender_record.t = "dict"
        /\ last.tender_res = "true"
        /\ pc = "loop" =>
              HoldsLast(tenders_output, last.processed.tender_record)
        /\ (cfg.check_cpvs /\ TitleHasListedCode) =>
              /\ last.processed.cpv_record.t = "dict"
              /\ Get(last.processed.cpv_record.v, "cpv_count", IntV(0)).v > 0
              /\ last.cpv_res = "true"
        /\ ~cfg.check_cpvs => last.processed.cpv_record.t = "none"

\* the service sent nothing that parses, for a record with a code in its
\* title, and code checking is on
C4_Witness ==
    /\ EnrichmentFailed
    /\ last.fetchOK
    /\ Reply(last.reply).form = "braces" /\ Reply(last.reply).status = "ok"
    /\ cfg.check_cpvs
    /\ TitleHasListedCode
    /\ last.cpv_res = "true"
    /\ last.pdf_res = "true"

\* C5: when the code check raises, the record has no codes but is still
\* emitted and written: the tender record, and the PDF record the
\* enrichment produced.
C5_CodeCheckFailureDegrades ==
    CodeCheckRaises =>
        /\ ~last.processed.raised
        /\ last.processed.tender_record.t = "dict"
        /\ last.processed.cpv_record.t = "none"
        /\ last.tender_res = "true"
        /\ last.processed.pdf_record.t = "dict"
        /\ last.pdf_res = "true"

----------------------------------------------------------------------------
(* The record functions on their own: one call on any input *)

\* a field the raw record does not have
Missing == [t |-> "missing", v |-> ""]

\* the record d with field k set to x, or without field k
Field(d, k, x) ==
    IF x.t = "missing" THEN SelectSeq(d, LAMBDA kv : kv[1] # k)
    ELSE Put(d, k, x)

\* what the fields of a raw record can hold: text, nothing, None, or no
\* such field
Identifiers ==
    <<Text(<<"1">>), Text(<<"abc">>), Text(<<>>), NoneV, Missing>>

ValueTexts ==
    <<Text(<<"€", "50", ",", "000">>), Text(<<"50", ",", "000">>),
      Text(<<"N/A">>), Text(<<>>), NoneV, Missing>>

DocumentUrls ==
    <<Text(<<"https://www.etenders.gov.ie/n.pdf">>), Text(<<>>), Missing>>

Statuses == <<Text(<<"Open">>), Text(<<"Closed">>), NoneV, Missing>>

PublishedDates ==
    <<Text(<<"Mon", "Nov", "17", "16:51:52", "GMT", "2025">>),
      Text(<<"01-Dec-2025">>)>>

Cycles == <<Text(<<"1">>), Text(<<"first">>)>>

\* the raw record of a choice c of field values
RawInput(c) ==
    Field(Field(Field(Field(Field(Field(
        tender_data(<<"1">>, <<"Works">>, <<"Open">>, <<>>, <<>>, <<>>),
        "resource_id", Identifiers[c.id]),
        "estimated_value", ValueTexts[c.value]),
        "notice_pdf_url", DocumentUrls[c.url]),
        "status", Statuses[c.status]),
        "date_published", PublishedDates[c.date]),
        "cycle", Cycles[c.cycle])

RawChoices ==
    [id : 1..Len(Identifiers), value : 1..Len(ValueTexts),
     url : 1..Len(DocumentUrls), status : 1..Len(Statuses),
     date : 1..Len(PublishedDates), cycle : 1..Len(Cycles)]

FnInit ==
    /\ FnIdle
    /\ RunIdle
    /\ WriterIdle

\* coerce_types(record)
CoerceTypes ==
    /\ fn = "none"
    /\ \E c \in RawChoices :
          /\ fn' = "coerce_types"
          /\ given' = c
          /\ returned' = coerce_types(RawInput(c))
    /\ UNCHANGED <<writerVars, runVars>>

\* the date values of a raw record: the eTenders form, the slash forms,
\* the day-month-year forms, an ISO timestamp, other text, nothing, and
\* values that are no text
DateTexts ==
    <<Text(<<"Mon", "Nov", "17", "16:51:52", "GMT", "2025">>),
      Text(<<"01", "/", "12", "/", "2025", "12:00">>),
      Text(<<"01", "/", "12", "/", "2025">>),
      Text(<<"01-Dec-2025">>),
      Text(<<"15-Dec-2025", "17:00">>),
      Text(<<"2025-12-01T00:00:00">>),
      Text(<<"soon">>),
      Text(<<>>),
      NoneV,
      IntV(5)>>

\* parse_date(date_str)
ParseDate ==
    /\ fn = "none"
    /\ \E i \in 1..Len(DateTexts) :
          /\ fn' = "parse_date"
          /\ given' = i
          /\ returned' = parse_date(DateTexts[i])
    /\ UNCHANGED <<writerVars, runVars>>

\* parse_date called with what parse_date returned
ParseDateAgain ==
    /\ fn = "parse_date"
    /\ fn' = "parse_date_again"
    /\ given' = returned
    /\ returned' = parse_date(returned)
    /\ UNCHANGED <<writerVars, runVars>>

\* what a record handed to extract_cpv_codes can hold: in pdf_data the
\* classification field, the sections and the fallback text; and the title
MainClassifications ==
    <<Missing, Text(<<>>), Text(<<"72212731", "Software">>),
      Text(<<"99999999">>), Text(<<"72212731", "99999999", "72212731">>),
      IntV(72212731)>>

SectionDicts ==
    <<Missing, DictV(<<>>),
      DictV(<<<<"Overview", Text(<<"48000000", "99999999">>)>>>>),
      DictV(<<<<"Overview", Text(<<"72212731">>)>>,
              <<"Lots", Text(<<"48000000", "72212731", "48000000">>)>>>>),
      DictV(<<<<"Overview", ListV(<<Text(<<"48000000">>)>>)>>>>)>>

FullTexts == <<Missing, Text(<<"48000000", "99999999">>)>>

Titles ==
    <<Text(<<"Works">>), Text(<<"72212731", "99999999">>),
      Text(<<"48000000", "48000000">>)>>

ExtractChoices ==
    [pdf : BOOLEAN, main : 1..Len(MainClassifications),
     sections : 1..Len(SectionDicts), full : 1..Len(FullTexts),
     title : 1..Len(Titles)]

\* the record of a choice c
ExtractInput(c) ==
    Put(Put(tender_data(<<"1">>, <<>>, <<"Open">>, <<>>, <<>>, <<>>),
            "title", Titles[c.title]),
        "pdf_data",
        IF c.pdf
        THEN DictV(Field(Field(Field(<<>>,
                 "main_classification", MainClassifications[c.main]),
                 "pdf_content", SectionDicts[c.sections]),
                 "pdf_content_full_text", FullTexts[c.full]))
        ELSE NoneV)

\* extract_cpv_codes(record)
ExtractCpvCodes ==
    /\ fn = "none"
    /\ \E c \in ExtractChoices :
          /\ fn' = "extract_cpv_codes"
          /\ given' = c
          /\ returned' = extract_cpv_codes(ExtractInput(c))
    /\ UNCHANGED <<writerVars, runVars>>

\* main.py lines 208-248 on newly opened file outputs, for a raw record
\* with any identifier: the record is processed and written
ProcessAndWrite ==
    /\ fn = "none"
    /\ \E output_format \in {"json", "csv"}, id \in 1..Len(Identifiers) :
          /\ fn' = "loop_body"
          /\ given' = [output_format |-> output_format, id |-> id]
          /\ \E o \in {open_outputs(output_format, TRUE)} :
                returned' =
                   loop_body(o.tenders_output, o.pdfs_output, o.cpvs_output,
                             ZeroCounters,
                             [output_format |-> output_format,
                              process_pdfs |-> FALSE, check_cpvs |-> FALSE,
                              db_up |-> TRUE],
                             RawInput([id |-> id, value |-> 2, url |-> 1,
                                       status |-> 1, date |-> 1, cycle |-> 1]),
                             TRUE, Reply(1), TRUE)
    /\ UNCHANGED <<writerVars, runVars>>

\* what the service can answer besides Reply: metadata holding the keys
\* process_record sets itself, an empty section map, metadata that is no
\* object, and a section map that is no object
MetadataReply(i) ==
    CASE i = 1 -> ServiceReply("ok", "json",
            DictV(<<<<"metadata",
                      DictV(<<<<"resource_id", Text(<<"999">>)>>>>)>>,
                    <<"pdf_content", Sections>>>>))
      [] i = 2 -> ServiceReply("ok", "json",
            DictV(<<<<"metadata",
                      DictV(<<<<"pdf_parsed", BoolV(FALSE)>>,
                              <<"pdf_url", Text(<<"elsewhere">>)>>>>)>>,
                    <<"pdf_content", Sections>>>>))
      [] i = 3 -> ServiceReply("ok", "json",
            DictV(<<<<"metadata",
                      DictV(<<<<"title", Text(<<"Road", "works">>)>>>>)>>,
                    <<"pdf_content", DictV(<<>>)>>>>))
      [] i = 4 -> ServiceReply("ok", "json",
            DictV(<<<<"metadata", Text(<<"none">>)>>,
                    <<"pdf_content", Sections>>>>))
      [] OTHER -> ServiceReply("ok", "json",
            DictV(<<<<"metadata", DictV(<<>>)>>,
                    <<"pdf_content", Text(<<"supply", "48000000">>)>>>>))

ServiceReplies ==
    {Reply(i) : i \in ReplyIds} \cup {MetadataReply(i) : i \in 1..5}

\* the raw records handed to process_record: those of RawRecord, then
\* records without a PDF link: 4 with a listed code in info only, 5 with
\* an unlisted code in its title, 6 with no code
ProcessInput(i) ==
    CASE i \in RawRecordIds -> RawRecord(i)
      [] i = 4 -> Put(tender_data(<<"4">>, <<"Road", "works">>, <<"Open">>,
                                  <<>>, <<>>, <<>>),
                      "info", Text(<<"ref", "48000000">>))
      [] i = 5 -> tender_data(<<"5">>, <<"Lot", "99999999">>, <<"Open">>,
                              <<>>, <<>>, <<>>)
      [] OTHER -> tender_data(<<"6">>, <<"Road", "works">>, <<"Open">>,
                              <<>>, <<>>, <<>>)

ProcessInputIds == 1..6

\* process_record(record, process_pdfs, check_cpvs)
ProcessRecord ==
    /\ fn = "none"
    /\ \E i \in ProcessInputIds, process_pdfs \in BOOLEAN,
          check_cpvs \in BOOLEAN, fetchOK \in BOOLEAN,
          reply \in ServiceReplies :
          /\ fn' = "process_record"
          /\ given' = [record |-> i, process_pdfs |-> process_pdfs,
                       check_cpvs |-> check_cpvs, fetchOK |-> fetchOK,
                       reply |-> reply]
          /\ \E r \in {process_record(ProcessInput(i), process_pdfs,
                                       check_cpvs, fetchOK, reply)},
                requests \in {process_record_calls(ProcessInput(i),
                                                   process_pdfs, fetchOK)} :
                returned' = [raised |-> r.raised,
                             tender_record |-> r.tender_record,
                             pdf_record |-> r.pdf_record,
                             cpv_record |-> r.cpv_record,
                             calls |-> requests]
    /\ UNCHANGED <<writerVars, runVars>>

FnNext ==
    \/ CoerceTypes
    \/ ParseDate
    \/ ParseDateAgain
    \/ ExtractCpvCodes
    \/ ProcessAndWrite
    \/ ProcessRecord

FnSpec == FnInit /\ [][FnNext]_vars

----------------------------------------------------------------------------
(* Properties of the record functions, checked under FnSpec *)

\* coerce_types was called and returned a record
Coerced == fn = "coerce_types" /\ ~returned.raised

\* C12: coerce_types raises for no raw record, whatever its fields hold,
\* and a field that cannot be coerced comes out as None (a date as the
\* text it was).
C12_CoerceNeverRaises ==
    fn = "coerce_types" =>
        /\ ~returned.raised
        /\ Get(returned.record, "estimated_value_numeric", Missing).t
              \in {"float", "none"}
        /\ Get(returned.record, "cycle_numeric", Missing).t \in {"int", "none"}
        /\ Get(returned.record, "date_published_parsed", Missing).t = "str"

\* C13: in every record coerce_types returns, has_estimated_value says
\* whether estimated_value_numeric is there, and has_pdf_url whether the
\* document URL of the raw record is a non-empty text.
C13_FlagsMatchFields ==
    Coerced =>
        /\ Get(returned.record, "has_estimated_value", Missing) =
              BoolV(Get(returned.record, "estimated_value_numeric", NoneV).t
                       # "none")
        /\ Get(returned.record, "has_pdf_url", Missing) =
              BoolV(/\ DocumentUrls[given.url].t = "str"
                    /\ DocumentUrls[given.url].v # <<>>)

\* a value text that is there but is no number, and a document URL
C13_Witness ==
    /\ Coerced
    /\ ValueTexts[given.value] = Text(<<"N/A">>)
    /\ Get(returned.record, "has_estimated_value", Missing) = BoolV(FALSE)
    /\ Get(returned.record, "has_pdf_url", Missing) = BoolV(TRUE)

\* C14: a value text of a currency symbol and digits with thousands
\* separators comes out as the number (50000 for the euro sign and 50,000)
\* with has_estimated_value true; empty text and N/A come out absent.
C14_CurrencyStripped ==
    Coerced =>
        /\ ValueTexts[given.value] = Text(<<"€", "50", ",", "000">>) =>
              /\ Get(returned.record, "estimated_value_numeric", Missing) =
                    FloatV(50000)
              /\ Get(returned.record, "has_estimated_value", Missing) =
                    BoolV(TRUE)
        /\ ValueTexts[given.value] \in {Text(<<"N/A">>), Text(<<>>)} =>
              Get(returned.record, "estimated_value_numeric", Missing) = NoneV

C16_KnownFormatsParsed ==
    fn = "parse_date" =>
        /\ DateTexts[given] = Text(<<"01-Dec-2025">>) =>
              returned = Text(<<"2025-12-01T00:00:00">>)
        /\ DateTexts[given] = Text(<<"15-Dec-2025", "17:00">>) =>
              returned = Text(<<"2025-12-15T17:00:00">>)
        /\ DateTexts[given] = Text(<<"01", "/", "12", "/", "2025">>) =>
              returned = Text(<<"2025-12-01T00:00:00">>)

\* C17: in every record coerce_types returns, resource_id is an integer or
\* None: for numeric text, other text, the empty string and no field.
C17_IdentifierIntOrAbsent ==
    Coerced => Get(returned.record, "resource_id", NoneV).t \in {"int", "none"}

\* C18: a record whose identifier is absent is a per-record error for the
\* sink: its write returns False, it is counted as failed and not as
\* written, and the sink holds nothing of it.
C18_AbsentIdentifierRejected ==
    (/\ fn = "loop_body"
     /\ ~returned.processed.raised
     /\ Get(returned.processed.tender_record.v, "resource_id", NoneV) = NoneV) =>
        /\ returned.tender_res = "false"
        /\ returned.counters.failed_records = 1
        /\ returned.counters.tenders_written = 0
        /\ \A i \in 1..Len(returned.tenders_output.w.file) :
              returned.tenders_output.w.file[i] = TokOpen

\* extract_cpv_codes was called and returned a list
Extracted == fn = "extract_cpv_codes" /\ ~returned.raised

\* the code and the source tag of entry i of the returned list
CodeAt(i) == Get(returned.found_cpvs[i].v, "code", Missing).v[1]
SourceAt(i) == Get(returned.found_cpvs[i].v, "source", Missing).v[1]

\* the eight-digit tokens of a text
Tokens(words) == {word \in Range(words) : word \in EightDigits}

\* a text source of the record: its tag and its words
Source(tag, words) == [tag |-> tag, words |-> words]

\* the texts of Dict that are strings, as sources, in the order of Dict
RECURSIVE SectionSources(_)
SectionSources(sections) ==
    IF sections = <<>> THEN <<>>
    ELSE (IF sections[1][2].t = "str"
          THEN <<Source("pdf_content_" \o sections[1][1], sections[1][2].v)>>
          ELSE <<>>)
         \o SectionSources(Tail(sections))

\* the text sources of the record of choice c in priority order: the
\* classification field, the section texts, the fallback text, the free
\* text fields
SourcesOf(c) ==
    (IF c.pdf /\ MainClassifications[c.main].t = "str"
     THEN <<Source("pdf_main_classification", MainClassifications[c.main].v)>>
     ELSE <<>>)
    \o (IF c.pdf /\ SectionDicts[c.sections].t = "dict"
        THEN SectionSources(SectionDicts[c.sections].v) ELSE <<>>)
    \o (IF c.pdf /\ FullTexts[c.full].t = "str"
        THEN <<Source("pdf_full_text", FullTexts[c.full].v)>> ELSE <<>>)
    \o <<Source("text_search", Titles[c.title].v \o <<"Council">>)>>

\* C19: the list extract_cpv_codes returns holds no code twice, and the
\* entry of a code carries the tag of the first source, in priority order,
\* in which the code occurs.
C19_DedupFirstSourceWins ==
    Extracted =>
        /\ \A i, j \in 1..Len(returned.found_cpvs) :
              CodeAt(i) = CodeAt(j) => i = j
        /\ \A i \in 1..Len(returned.found_cpvs) :
              \E k \in 1..Len(SourcesOf(given)) :
                 /\ CodeAt(i) \in Tokens(SourcesOf(given)[k].words)
                 /\ SourceAt(i) = SourcesOf(given)[k].tag
                 /\ \A h \in 1..(k - 1) :
                       CodeAt(i) \notin Tokens(SourcesOf(given)[h].words)

\* a listed code in the classification field (twice), in two sections and
\* in the title: one entry, from the classification field
C19_Witness ==
    /\ Extracted
    /\ given.pdf /\ given.main = 5 /\ given.sections = 4 /\ given.title = 2
    /\ \E i \in 1..Len(returned.found_cpvs) :
          CodeAt(i) = "72212731" /\ SourceAt(i) = "pdf_main_classification"
    /\ \E i \in 1..Len(returned.found_cpvs) :
          CodeAt(i) = "48000000" /\ SourceAt(i) = "pdf_content_Lots"

\* the tokens of the classification text, and of every other source
MainTokens(c) ==
    IF c.pdf /\ MainClassifications[c.main].t = "str"
    THEN Tokens(MainClassifications[c.main].v) ELSE {}

OtherTokens(c) ==
    UNION {Tokens(SourcesOf(c)[k].words) :
             k \in {h \in 1..Len(SourcesOf(c)) :
                       SourcesOf(c)[h].tag # "pdf_main_classification"}}

\* C20: the codes of the returned list are every token of the
\* classification text and, of the tokens of section texts and free text,
\* exactly those of the reference list; validated says whether the code is
\* in the list.  With 72212731 in the classification text and 72212731 and
\* 99999999 in the free text there is one entry for 72212731, from the
\* classification field, and none for 99999999.
C20_KeepRule ==
    Extracted =>
        /\ {CodeAt(i) : i \in 1..Len(returned.found_cpvs)} =
              MainTokens(given) \cup (OtherTokens(given) \cap CPV_CODES)
        /\ \A i \in 1..Len(returned.found_cpvs) :
              Get(returned.found_cpvs[i].v, "validated", Missing) =
                 BoolV(CodeAt(i) \in CPV_CODES)
        /\ (given.pdf /\ given.main = 3 /\ given.title = 2) =>
              /\ Cardinality({i \in 1..Len(returned.found_cpvs) :
                                CodeAt(i) = "72212731"}) = 1
              /\ \A i \in 1..Len(returned.found_cpvs) :
                    /\ CodeAt(i) = "72212731" =>
                          SourceAt(i) = "pdf_main_classification"
                    /\ CodeAt(i) # "99999999"

\* the example: the classification text holds 72212731, the title
\* 72212731 and 99999999, nothing else holds a code
C20_Witness ==
    /\ Extracted
    /\ given.pdf /\ given.main = 3 /\ given.title = 2
    /\ given.sections = 1 /\ given.full = 1
    /\ Len(returned.found_cpvs) = 1
    /\ CodeAt(1) = "72212731"

\* process_record was called and returned its three records
RecordProcessed == fn = "process_record" /\ ~returned.raised

\* the service was called for the record
ServiceCalled == fn = "process_record" /\ "post" \in Range(returned.calls)

\* pdf_content of the PDF record
PdfContent == Get(returned.pdf_record.v, "pdf_content", Missing)

\* pdf_content holds the truncated text of the document under full_text
HoldsRawText ==
    /\ returned.pdf_record.t = "dict"
    /\ PdfContent.t = "dict"
    /\ Get(PdfContent.v, "full_text", Missing) =
          Text(Truncated(DocumentText))

\* pdf_content holds a non-empty parse_error
HoldsErrorField ==
    /\ PdfContent.t = "dict"
    /\ Get(PdfContent.v, "parse_error", Missing).t = "str"
    /\ Get(PdfContent.v, "parse_error", Missing).v # <<>>

\* the service answered, and neither json.loads of line 146 nor the retry of
\* lines 171-178 gave a value
NothingRecovered ==
    /\ ServiceCalled
    /\ given.reply.status = "ok"
    /\ given.reply.form \in {"garbage", "braces"}

HoldsSectionMap ==
    /\ returned.pdf_record.t = "dict"
    /\ PdfContent.t = "dict"
    /\ PdfContent.v # <<>>
    /\ Get(PdfContent.v, "full_text", Missing) = Missing

\* C22: whenever the text of the document was extracted and the service was
\* called, whatever the call gave, the record gets a PDF record that holds
\* either a section map or the raw text with an error marker, and not both.
C22_SectionsOrMarkedFallback ==
    (RecordProcessed /\ ServiceCalled) =>
        /\ returned.pdf_record.t = "dict"
        /\ HoldsSectionMap # (HoldsRawText /\ HoldsErrorField)

\* C23: when the service cannot be reached the call is made once and the
\* record gets no PDF record; a PDF record holding the raw text comes only
\* from an answer that was received and could not be parsed.
C23_UnavailableIsNotGarbage ==
    /\ (ServiceCalled /\ given.reply.status = "conn_error") =>
          /\ returned.calls = <<"get", "post">>
          /\ ~returned.raised
          /\ returned.pdf_record = NoneV
    /\ (RecordProcessed /\ HoldsRawText) =>
          /\ given.reply.status = "ok"
          /\ given.reply.form \in {"garbage", "braces"}

\* process_record returned for a raw record whose notice_pdf_url is ''
EmptyUrlProcessed ==
    /\ RecordProcessed
    /\ Get(ProcessInput(given.record), "notice_pdf_url", Missing) = Text(<<>>)

\* the codes of the list among the words of these fields of the raw record
ListedIn(fields) ==
    {code \in CPV_CODES :
        \E f \in fields :
            code \in Range(str(Get(ProcessInput(given.record), f,
                                   Text(<<>>))))}

\* C24 as stated: for a raw record with an empty document URL
\* process_record returns a tender record with has_pdf_url false, no PDF
\* record, and a CPV record only if the title or the contracting authority
\* holds a code of the list.
C24_TitleAuthorityOnly ==
    EmptyUrlProcessed =>
        /\ Get(returned.tender_record.v, "has_pdf_url", Missing) = BoolV(FALSE)
        /\ returned.pdf_record = NoneV
        /\ returned.cpv_record # NoneV =>
              ListedIn({"title", "contracting_authority"}) # {}

\* C24 amended: for a raw record with an empty document URL process_record
\* returns a tender record with has_pdf_url false, no PDF record, and a CPV
\* record only if the title, the info text or the contracting authority
\* holds a code of the list.
C24_EmptyUrlEndToEnd ==
    EmptyUrlProcessed =>
        /\ Get(returned.tender_record.v, "has_pdf_url", Missing) = BoolV(FALSE)
        /\ returned.pdf_record = NoneV
        /\ returned.cpv_record # NoneV =>
              ListedIn({"title", "info", "contracting_authority"}) # {}

\* a CPV record from a code of the list in the title, with no PDF link
C24_Witness ==
    /\ EmptyUrlProcessed
    /\ given.check_cpvs
    /\ returned.cpv_record # NoneV
    /\ ListedIn({"title"}) # {}

\* line 78 of main.py holds for the record process_record returned
EnrichmentDue ==
    /\ given.process_pdfs
    /\ Get(returned.tender_record.v, "has_pdf_url", Missing) = BoolV(TRUE)

\* C25: process_record sends the document download for a record exactly
\* when has_pdf_url is true and process_pdfs is set, and calls the service
\* only after that download; otherwise it sends no request and returns no
\* PDF record.
C25_EnrichingIffDue ==
    RecordProcessed =>
        /\ "get" \in Range(returned.calls) <=> EnrichmentDue
        /\ "post" \in Range(returned.calls) => "get" \in Range(returned.calls)
        /\ ~EnrichmentDue =>
              /\ returned.calls = <<>>
              /\ returned.pdf_record = NoneV

\* a record with a PDF link processed with process_pdfs off, and nothing
\* sent for it
C25_Witness ==
    /\ RecordProcessed
    /\ ~given.process_pdfs
    /\ Get(returned.tender_record.v, "has_pdf_url", Missing) = BoolV(TRUE)
    /\ returned.calls = <<>>

\* C30: every PDF record process_record returns holds the resource_id of
\* the tender record returned with it, that record's notice_pdf_url as
\* pdf_url, and pdf_parsed true, whatever the metadata of the service's
\* answer holds.
C30_PdfRecordKeepsIdentity ==
    (RecordProcessed /\ returned.pdf_record.t = "dict") =>
        /\ Get(returned.pdf_record.v, "resource_id", Missing) =
              Get(returned.tender_record.v, "resource_id", NoneV)
        /\ Get(returned.pdf_record.v, "pdf_url", Missing) =
              Get(returned.tender_record.v, "notice_pdf_url", NoneV)
        /\ Get(returned.pdf_record.v, "pdf_parsed", Missing) = BoolV(TRUE)

----------------------------------------------------------------------------
(* Properties of the store writer, checked under WriterSpec *)

PgWrites == {"write", "write_pdf", "write_cpv", "write_bid"}

\* a call of one of the four write methods of the store writer that
\* returned True
PgWrote(call) == wkind = "postgres" /\ call.op \in PgWrites /\ call.res = "true"

\* C26: the store writer commits at the boundaries of batches of a fixed
\* size and not after every record; whatever the size above one, the first
\* successful write on a new connection is no boundary and commits nothing.
C26_CommitsInBatches ==
    [][(ret.op = "init" /\ PgWrote(ret')) =>
          out'.committed = out.committed]_vars

\* the table a write call goes to and the record it was handed
TableOf(call) ==
    CASE call.op = "write" -> "core"
      [] call.op = "write_pdf" -> "pdf"
      [] call.op = "write_cpv" -> "cpv"
      [] OTHER -> "bid"

RecordOf(call) ==
    CASE call.op = "write" -> PgTender(call.arg[1])
      [] call.op = "write_pdf" -> PgPdf(call.arg[1])
      [] call.op = "write_cpv" -> PgCpv(call.arg[1])
      [] OTHER -> PgBid(call.arg[1])

OneRowPerIdentifier(rows) ==
    \A i, j \in 1..Len(rows) : rows[i][1] = rows[j][1] => i = j

\* the row of the record's identifier holds every value of the record
HoldsRecord(rows, record) ==
    /\ HasKey(rows, Get(record, "resource_id", NoneV))
    /\ \E row \in {Get(rows, Get(record, "resource_id", NoneV), <<>>)} :
          \A i \in 1..Len(record) :
              Get(row, record[i][1], Missing) = record[i][2]

\* the rows of a table without their updated_at
Values(rows) ==
    [i \in 1..Len(rows) |->
        <<rows[i][1], SelectSeq(rows[i][2], LAMBDA kv : kv[1] # "updated_at")>>]

\* after the successful write that call describes, the committed tables
\* hold one row per identifier and the row of the record written holds its
\* values
KeyedByIdentifier(call, pg) ==
    /\ \A t \in {"core", "pdf", "cpv", "bid"} :
          OneRowPerIdentifier(pg.committed[t])
    /\ HoldsRecord(pg.committed[TableOf(call)], RecordOf(call))

\* the call repeats the successful write before it
SameWriteAgain ==
    /\ PgWrote(ret) /\ PgWrote(ret')
    /\ ret'.op = ret.op /\ ret'.arg = ret.arg

\* C27 as stated: after every successful write each table holds one row per
\* identifier with the values of the last successful write for it, and a
\* second write of the same record leaves the tables as the first left them.
C27_UpsertIdempotent ==
    [][/\ PgWrote(ret') => KeyedByIdentifier(ret', out')
       /\ SameWriteAgain => out'.committed = out.committed]_vars

\* C27 amended: after every successful write each table holds one row per
\* identifier with the values of the last successful write for it, and a
\* second write of the same record leaves the tables as the first left them
\* but for updated_at, which the second write sets in etenders_core,
\* etenders_pdf and bid_analysis.
C27_UpsertIdempotentButStamp ==
    [][/\ PgWrote(ret') => KeyedByIdentifier(ret', out')
       /\ SameWriteAgain =>
             /\ \A t \in {"core", "pdf", "cpv", "bid"} :
                   Values(out'.committed[t]) = Values(out.committed[t])
             /\ out'.committed.cpv = out.committed.cpv]_vars

\* tender 1 rewritten by the record with the same identifier and another
\* title: one row, holding the second title
C27_Witness ==
    /\ PgWrote(ret)
    /\ ret.op = "write" /\ ret.arg[1] = 3
    /\ Len(out.committed.core) = 1
    /\ Get(Get(out.committed.core, IntV(1), <<>>), "title", Missing) =
          Text(<<"c">>)
    /\ Get(Get(out.committed.core, IntV(1), <<>>), "updated_at", Missing) =
          Text(<<"updated">>)

----------------------------------------------------------------------------
(* Properties of the end of a run, checked under Spec *)

\* the three outputs of the run
RunOutputs == {tenders_output, pdfs_output, cpvs_output}

\* the records in a streaming JSON file
RecordsIn(file) == Len(SelectSeq(file, LAMBDA tok : tok.k = "rec"))

\* a streaming JSON file that holds every record written and ends with the
\* closing bracket
Finalized(w) ==
    /\ RecordsIn(w.file) = w.records_written
    /\ w.file[Len(w.file)] = TokClose

\* C28: however a run with JSON outputs ends after the outputs were opened,
\* by the end of the input or by an exception leaving the record loop, each
\* of the three files holds every record whose write returned True and ends
\* with the closing bracket.
C28_JsonFilesFinalized ==
    (cfg.output_format = "json" /\ pc \in {"done", "raised", "interrupted"}) =>
        \A sink \in RunOutputs : Finalized(sink.w)

\* the writes of the last pass that returned False
FailedWrites ==
    (IF last.tender_res = "false" THEN 1 ELSE 0)
    + (IF last.pdf_res = "false" THEN 1 ELSE 0)
    + (IF last.cpv_res = "false" THEN 1 ELSE 0)

\* the last pass ended in the except of line 241: process_record or a write
\* raised
PassRaised ==
    \/ last.processed.raised
    \/ "raise" \in {last.tender_res, last.pdf_res, last.cpv_res}

\* C29: at the end of a run the failed total is the number of records whose
\* processing raised plus the number of writes, of tender, PDF and CPV
\* records, that returned False; stated for the runs of one record.
C29_FailedTotal ==
    (pc = "done" /\ counters.total_records = 1) =>
        counters.failed_records = (IF PassRaised THEN 1 ELSE 0) + FailedWrites

=============================================================================
